---- MODULE Spec2Model ----
(***************************************************************************)
(* A model of web-tool's favicon pipeline (library/html_util.py,           *)
(* library/url_util.py): the three-tier favicon cache with its in-process  *)
(* read cache, candidate discovery, lazy validation and ranking.           *)
(*                                                                         *)
(* Python strings are TLA+ strings; the string functions the code uses     *)
(* (startswith, replace, split, join, in, urlparse) are computed character *)
(* by character with Len, SubSeq and \o.  Python's None is the string      *)
(* None for string-valued fields, NoneInt (-1) for integer fields and the  *)
(* empty list for list-valued fields; a dict is a function whose DOMAIN is *)
(* the dict's key set.                                                     *)
(***************************************************************************)
EXTENDS Integers, Sequences, FiniteSets, TLC

VARIABLES
    \* ---- sort_favicon_links, as a function of its arguments
    sIn,        \* favicons: the list handed to sort_favicon_links
    sW,         \* favicon_width
    sInc,       \* include
    sOut,       \* <<>> before the call, <<result>> after it
    \* ---- the tiered favicon cache
    store,      \* the three YAML files: tier -> [exists, isdict, data, mtime]
    yamlCache,  \* _favicon_yaml_cache: path -> [data, mtime, loaded_at]
    now,        \* time.time(), in seconds
    last,       \* ghost: what the last cache operation did
    \* ---- candidate discovery and validation
    links,      \* the RelLink objects of the current request, in list order
    net,        \* the network: url -> what a fetch of it yields now
    urlCache,   \* lru_cache of url_util.get_url: url -> SerializedResponse
    lastGfl,    \* ghost: the last get_favicon_links call
    lastV,      \* ghost: the last validate / validate_top_candidates call
    \* ---- the text walk, as a function of its argument
    tree,       \* elem: the parsed document handed to walk_soup_tree_strings
    walked,     \* <<>> before the call, <<outcome>> after it
    \* ---- the clip collector (util.py, web-tool.py)
    clip_cache, \* util.clip_cache: the batches, in the dict's insertion order
    clipNow,    \* time.time() for the clip cache, in seconds
    lastClip,   \* ghost: the last clip operation and what it gave
    accepted,   \* ghost: batch id -> the chunks accepted for it so far
    \* ---- two requests inside add_favicon_to_cache at the same time
    heap,       \* the dict objects _load_yaml_with_cache has returned
    req         \* request -> its arguments, its position and its local `cache`

sortVars  == <<sIn, sW, sInc, sOut>>
cacheVars == <<store, yamlCache, now, last>>
linkVars  == <<links, net, urlCache, lastGfl, lastV>>
textVars  == <<tree, walked>>
clipVars  == <<clip_cache, clipNow, lastClip, accepted>>
raceVars  == <<heap, req>>
vars == <<sIn, sW, sInc, sOut, store, yamlCache, now, last,
          links, net, urlCache, lastGfl, lastV, tree, walked,
          clip_cache, clipNow, lastClip, accepted, heap, req>>

None == "None"
NoneInt == -1
\* None where the value, when present, is a list (RelLink.rel).
NoneList == <<>>

\* Python truthiness of an optional string: None and "" are falsy.
Truthy(s) == s # None /\ s # ""

(***************************************************************************)
(* String functions.                                                       *)
(***************************************************************************)
StartsWith(s, p) == Len(s) >= Len(p) /\ SubSeq(s, 1, Len(p)) = p

EndsWith(s, p) == Len(s) >= Len(p) /\ SubSeq(s, Len(s) - Len(p) + 1, Len(s)) = p

\* The indices >= i at which p occurs in s.
FindAll(s, p, i) ==
    { k \in i..(Len(s) - Len(p) + 1) : SubSeq(s, k, k + Len(p) - 1) = p }

\* The first index >= i at which p occurs in s, 0 when there is none.
Find(s, p, i) ==
    IF FindAll(s, p, i) = {} THEN 0
    ELSE CHOOSE k \in FindAll(s, p, i) : \A j \in FindAll(s, p, i) : k <= j

\* p in s
Contains(s, p) == Find(s, p, 1) # 0

\* s.replace(old, new): every non-overlapping occurrence, left to right.
RECURSIVE Replace(_, _, _)
Replace(s, old, new) ==
    LET i == Find(s, old, 1) IN
    IF i = 0 THEN s
    ELSE SubSeq(s, 1, i - 1) \o new
         \o Replace(SubSeq(s, i + Len(old), Len(s)), old, new)

\* s.split(sep): a list of at least one part.
RECURSIVE Split(_, _)
Split(s, sep) ==
    LET i == Find(s, sep, 1) IN
    IF i = 0 THEN <<s>>
    ELSE <<SubSeq(s, 1, i - 1)>> \o Split(SubSeq(s, i + Len(sep), Len(s)), sep)

\* sep.join(parts)
RECURSIVE Join(_, _)
Join(parts, sep) ==
    IF Len(parts) = 0 THEN ""
    ELSE IF Len(parts) = 1 THEN parts[1]
    ELSE parts[1] \o sep \o Join(Tail(parts), sep)

\* urlparse(url) for a URL scheme://netloc/path without query or fragment.
urlparse(url) ==
    LET i    == Find(url, "://", 1)
        rest == IF i = 0 THEN url ELSE SubSeq(url, i + 3, Len(url))
        j    == Find(rest, "/", 1)
    IN  IF i = 0
        THEN [scheme |-> "", netloc |-> "", path |-> url]
        ELSE [scheme |-> SubSeq(url, 1, i - 1),
              netloc |-> IF j = 0 THEN rest ELSE SubSeq(rest, 1, j - 1),
              path   |-> IF j = 0 THEN "" ELSE SubSeq(rest, j, Len(rest))]

\* urlunparse((scheme, netloc, path, '', '', ''))
urlunparse(scheme, netloc, path) ==
    (IF scheme # "" \/ netloc # "" THEN scheme \o "://" \o netloc ELSE "")
    \o (IF path # "" /\ netloc # "" /\ ~StartsWith(path, "/")
        THEN "/" \o path ELSE path)

(***************************************************************************)
(* URL helpers of candidate discovery.                                     *)
(***************************************************************************)
UpperCase == "ABCDEFGHIJKLMNOPQRSTUVWXYZ"
LowerCase == "abcdefghijklmnopqrstuvwxyz"

\* str.lower()
RECURSIVE Lower(_)
Lower(s) ==
    IF s = "" THEN ""
    ELSE LET c == SubSeq(s, 1, 1)
             k == Find(UpperCase, c, 1)
         IN  (IF k = 0 THEN c ELSE SubSeq(LowerCase, k, k))
             \o Lower(SubSeq(s, 2, Len(s)))

\* urllib.parse.quote_plus of one character, for the characters of the URLs
\* used here: letters, digits and "_.-~" are kept, a space becomes "+", the
\* URL delimiters are percent-encoded.
QuoteChar(c) ==
    IF c = ":" THEN "%3A"
    ELSE IF c = "/" THEN "%2F"
    ELSE IF c = "?" THEN "%3F"
    ELSE IF c = "=" THEN "%3D"
    ELSE IF c = "&" THEN "%26"
    ELSE IF c = "%" THEN "%25"
    ELSE IF c = " " THEN "+"
    ELSE c

RECURSIVE quote_plus(_)
quote_plus(s) ==
    IF s = "" THEN ""
    ELSE QuoteChar(SubSeq(s, 1, 1)) \o quote_plus(SubSeq(s, 2, Len(s)))

\* urlencode({"url": href})
urlencode_url(href) == "url=" \o quote_plus(href)

\* request.host of the running server.
RequestHost == "localhost:8532"

\* f"http://{request.host}/{path}?{params}"
conv_href(path, href) ==
    "http://" \o RequestHost \o "/" \o path \o "?" \o urlencode_url(href)

\* The index of the last "/" of s, 0 when there is none.
RECURSIVE LastSlash(_, _)
LastSlash(s, i) ==
    IF i = 0 THEN 0
    ELSE IF SubSeq(s, i, i) = "/" THEN i
    ELSE LastSlash(s, i - 1)

\* urllib.parse.urljoin(base, url) for an http(s) base and a url without
\* scheme, query, fragment or dot segments.
urljoin(base, url) ==
    LET b == urlparse(base) IN
    IF url = "" THEN base
    ELSE IF base = "" THEN url
    ELSE IF StartsWith(url, "//") THEN b.scheme \o ":" \o url
    ELSE IF StartsWith(url, "/") THEN urlunparse(b.scheme, b.netloc, url)
    ELSE urlunparse(b.scheme, b.netloc,
                    SubSeq(b.path, 1, LastSlash(b.path, Len(b.path))) \o url)

\* url_util.make_absolute_urls
make_absolute_urls(page_url, linked_url) ==
    IF StartsWith(linked_url, "http://") \/ StartsWith(linked_url, "https://")
    THEN linked_url
    ELSE urljoin(page_url, linked_url)

(***************************************************************************)
(* Constants of html_util.py.                                              *)
(***************************************************************************)
FAVICON_WIDTH == 20
FAVICON_CACHE_TTL == 5
ICO_TO_PNG_PATH == "convert-ico-to-png"
SVG_TO_PNG_PATH == "convert-svg-to-png"
FAVICON_REL == {"icon", "apple-touch-icon", "shortcut icon"}
COMMON_FAVICON_FILES ==
    <<"favicon.png", "favicon.jpg", "favicon.gif", "favicon.ico", "favicon.svg">>

\* The dataclass RelLink with its defaults; nfetch is a ghost field counting the
\* url_util.get_url calls made on behalf of this object.
RelLink(href) ==
    [href |-> href, cache_key |-> None, rel |-> NoneList, sizes |-> None,
     resolved_href |-> None, height |-> 0, width |-> 0, image_type |-> None,
     validated |-> FALSE, nfetch |-> 0]

\* RelLink.is_valid
is_valid(x) == x.resolved_href # None /\ x.image_type # None

(***************************************************************************)
(* sort_favicon_links                                                      *)
(***************************************************************************)
Digits == "0123456789"

\* str(n) for n >= 0
RECURSIVE Str(_)
Str(n) ==
    IF n < 10 THEN SubSeq(Digits, n + 1, n + 1)
    ELSE Str(n \div 10) \o SubSeq(Digits, (n % 10) + 1, (n % 10) + 1)

\* f"{n:0{w}d}" for n >= 0: padded with zeros to at least w characters.
RECURSIVE ZeroPad(_, _)
ZeroPad(s, w) == IF Len(s) >= w THEN s ELSE ZeroPad("0" \o s, w)

\* Python compares strings by code point; the keys hold digits and "_" only,
\* and "_" (95) sorts after every digit (48..57).
CharOrd(c) == Find("0123456789_", c, 1)

RECURSIVE StrLess(_, _)
StrLess(a, b) ==
    IF Len(b) = 0 THEN FALSE
    ELSE IF Len(a) = 0 THEN TRUE
    ELSE LET ca == CharOrd(SubSeq(a, 1, 1))
             cb == CharOrd(SubSeq(b, 1, 1))
         IN  IF ca # cb THEN ca < cb
             ELSE StrLess(SubSeq(a, 2, Len(a)), SubSeq(b, 2, Len(b)))

\* key_precedence, selected as key_fn selects it
group_key(x) ==
    IF Truthy(x.cache_key) THEN 999
    ELSE IF Contains(x.href, SVG_TO_PNG_PATH) THEN 100
    ELSE IF Contains(x.href, ICO_TO_PNG_PATH) THEN 200
    ELSE IF x.image_type = "image/svg" THEN 300
    ELSE IF x.image_type = "image/ico" THEN 400
    ELSE 500

Abs(n) == IF n < 0 THEN -n ELSE n

\* int(d * 1.2): the double 1.2 times an integer below 2,000,000 truncates to
\* floor(6d/5).
UpscalePenalty(d) == (d * 6) \div 5

\* the distance of key_fn
distance_of(x, target_area) ==
    IF x.width # NoneInt /\ x.height # NoneInt
    THEN LET area == x.width * x.height
             d    == Abs(area - target_area)
         IN  IF area < target_area THEN UpscalePenalty(d) ELSE d
    ELSE 999999

\* key_fn: f"{group_key:03d}_{distance:09d}"
key_fn(x, target_area) ==
    ZeroPad(Str(group_key(x)), 3) \o "_"
    \o ZeroPad(Str(distance_of(x, target_area)), 9)

\* Whether a comes before b when their keys differ: sorted(..., reverse=True)
\* puts the greater key first.
KeyBefore(ka, kb) == StrLess(kb, ka)

\* sorted(seq, key=key_fn, reverse=True): stable, so an element goes after every
\* element already placed that is not strictly behind it.
RECURSIVE InsertByKey(_, _, _)
InsertByKey(out, x, t) ==
    IF Len(out) = 0 THEN <<x>>
    ELSE IF KeyBefore(key_fn(x, t), key_fn(out[1], t))
         THEN <<x>> \o out
         ELSE <<out[1]>> \o InsertByKey(Tail(out), x, t)

RECURSIVE SortedByKey(_, _, _)
SortedByKey(out, rest, t) ==
    IF Len(rest) = 0 THEN out
    ELSE SortedByKey(InsertByKey(out, rest[1], t), Tail(rest), t)

\* The early return of sort_favicon_links: a leading cache-sourced candidate and
\* include != "all".
ShortCircuit(favicons, include) ==
    Len(favicons) > 0 /\ Truthy(favicons[1].cache_key) /\ include # "all"

sort_favicon_links(favicons, favicon_width, include) ==
    IF Len(favicons) = 0 THEN favicons
    ELSE IF ShortCircuit(favicons, include) THEN SubSeq(favicons, 1, 1)
    ELSE SortedByKey(<<>>, favicons, favicon_width * favicon_width)

(***************************************************************************)
(* Inputs of sort_favicon_links: candidates as the callers build them.     *)
(***************************************************************************)
\* A candidate whose size and type were filled in from a fetched image
\* (RelLink.validate, or get_mirror_favicons from url_util.get_image_size).
Sized(href, type, w, h) ==
    [RelLink(href) EXCEPT !.image_type = type, !.width = w, !.height = h,
                          !.resolved_href = href, !.validated = TRUE]

\* A cache candidate that is not marked as validated.
CachedLinkUnvalidated(favicon, key) ==
    [RelLink(favicon) EXCEPT !.cache_key = key,
                             !.resolved_href = favicon, !.image_type = "image/png"]

\* The candidate get_favicon_cache builds for a hit.
CachedLink(favicon, key) ==
    [RelLink(favicon) EXCEPT !.cache_key = key, !.validated = TRUE,
                             !.resolved_href = favicon, !.image_type = "image/png"]

SortPool ==
    { CachedLink("http://ex.com/c.png", "ex.com"),
      Sized("http://ex.com/a.png", "image/png", 3, 4),
      Sized("http://ex.com/b.png", "image/png", 4, 5),
      Sized("http://ex.com/d.png", "image/png", 2, 3),
      Sized("http://ex.com/e.png", "image/png", 2, 13),
      Sized("http://ex.com/f.png", "image/png", 4, 4),
      Sized("http://ex.com/g.ico", "image/ico", 4, 4),
      Sized("http://ex.com/h.ico", "image/ico", 19, 20),
      Sized("http://ex.com/i.svg", "image/svg", 0, 0),
      RelLink("http://ex.com/favicon.gif"),
      RelLink(conv_href(ICO_TO_PNG_PATH, "http://ex.com/g.ico")),
      Sized(conv_href(SVG_TO_PNG_PATH, "http://ex.com/i.svg"), "image/png", 20, 21) }

MaxSortLen == 3

SortWidths == {4, FAVICON_WIDTH}

SortInputs == UNION { [1..n -> SortPool] : n \in 0..MaxSortLen }

\* The values the variables of a subsystem hold while another one is checked.
IdleSort ==
    /\ sIn = <<>>
    /\ sW = FAVICON_WIDTH
    /\ sInc = None
    /\ sOut = <<>>

IdleText ==
    /\ tree = <<>>
    /\ walked = <<>>

IdleClip ==
    /\ clip_cache = <<>>
    /\ clipNow = 0
    /\ lastClip = [op |-> "none"]
    /\ accepted = <<>>

IdleRace ==
    /\ heap = <<>>
    /\ req = <<>>

IdleCache ==
    /\ store = <<>>
    /\ yamlCache = <<>>
    /\ now = 0
    /\ last = [op |-> "none"]

IdleLinks ==
    /\ links = <<>>
    /\ net = <<>>
    /\ urlCache = <<>>
    /\ lastGfl = [op |-> "none"]
    /\ lastV = [op |-> "none"]

InitSort ==
    /\ sIn \in SortInputs
    /\ sW \in SortWidths
    /\ sInc \in {None, "all"}
    /\ sOut = <<>>
    /\ IdleCache
    /\ IdleLinks
    /\ IdleText
    /\ IdleClip
    /\ IdleRace

\* One call sort_favicon_links(favicons, favicon_width, include).
SortCall ==
    /\ sOut = <<>>
    /\ sOut' = <<sort_favicon_links(sIn, sW, sInc)>>
    /\ UNCHANGED <<sIn, sW, sInc>>
    /\ UNCHANGED cacheVars
    /\ UNCHANGED linkVars
    /\ UNCHANGED textVars
    /\ UNCHANGED clipVars
    /\ UNCHANGED raceVars

NextSort == SortCall

SpecSort == InitSort /\ [][NextSort]_vars

(***************************************************************************)
(* Claims about sort_favicon_links.                                        *)
(***************************************************************************)
SortRan == sOut # <<>> /\ ~ShortCircuit(sIn, sInc)

\* C1: when the sort is not short-circuited, the result is ordered by descending
\* group and, within one group, by ascending distance from the target area: of
\* two candidates of one group the one with the smaller distance comes first.
C1_GroupThenAscendingDistance ==
    SortRan =>
        LET r == sOut[1]
            t == sW * sW
        IN  \A i, j \in 1..Len(r) :
                i < j =>
                    /\ group_key(r[i]) >= group_key(r[j])
                    /\ group_key(r[i]) = group_key(r[j])
                          => distance_of(r[i], t) <= distance_of(r[j], t)

\* C10: upscale penalty monotonicity: of two candidates of one group whose areas
\* lie below and above the target area by the same amount, the below-target
\* one never appears before the above-target one.
C10_BelowNeverBeforeAbove ==
    SortRan =>
        LET r == sOut[1]
            t == sW * sW
            area(x) == x.width * x.height
        IN  \A i, j \in 1..Len(r) :
                ( /\ group_key(r[i]) = group_key(r[j])
                  /\ area(r[i]) < t
                  /\ area(r[j]) > t
                  /\ t - area(r[i]) = area(r[j]) - t )
                => ~(i < j)

(***************************************************************************)
(* The tiered favicon cache.                                               *)
(***************************************************************************)
FAVICON_OVERRIDES == "static/favicon-overrides.yml"
FAVICON_DEFAULTS == "static/favicon.yml"
FAVICON_LOCAL_CACHE == "local-cache/favicon.yml"

Paths == {FAVICON_OVERRIDES, FAVICON_DEFAULTS, FAVICON_LOCAL_CACHE}

\* {} and dict operations
EmptyDict == [k \in {} |-> ""]

Dict(keys, v) == [k \in keys |-> v]

\* d[k] = v
SetItem(d, k, v) == [x \in (DOMAIN d) \cup {k} |-> IF x = k THEN v ELSE d[x]]

\* d.get(k)
DictGet(d, k) == IF k \in DOMAIN d THEN d[k] ELSE None

\* del d[k]
DelItem(d, k) == [x \in (DOMAIN d) \ {k} |-> d[x]]

\* A file that does not exist, and a file holding YAML text.
NoFile == [exists |-> FALSE, isdict |-> FALSE, data |-> EmptyDict, mtime |-> 0]

YamlFile(data, mtime) ==
    [exists |-> TRUE, isdict |-> TRUE, data |-> data, mtime |-> mtime]

\* A file whose YAML is not a mapping (empty, a list, unparseable).
BadFile(mtime) ==
    [exists |-> TRUE, isdict |-> FALSE, data |-> EmptyDict, mtime |-> mtime]

\* What yaml.safe_load of the file gives after the isinstance check and the
\* except clause of _load_yaml_with_cache.
SafeLoad(f) == IF f.isdict THEN f.data ELSE EmptyDict

\* A variant of the comparison that still trusts an entry loaded exactly
\* FAVICON_CACHE_TTL seconds ago.
CacheStillValidInclusive(cached_mtime, current_mtime, current_time, loaded_at) ==
    /\ cached_mtime = current_mtime
    /\ current_time - loaded_at <= FAVICON_CACHE_TTL

\* The comparison that lets _load_yaml_with_cache reuse its cache entry.
CacheStillValid(cached_mtime, current_mtime, current_time, loaded_at) ==
    /\ cached_mtime = current_mtime
    /\ current_time - loaded_at < FAVICON_CACHE_TTL

\* _load_yaml_with_cache(file_path) on the read cache `cache`, the files `st` and
\* the clock `t`.  Returns the mapping, the read cache afterwards, whether the
\* file was opened, and whether the returned dict is the very object the read
\* cache holds (it is, whenever the file exists).
load_yaml_with_cache(file_path, cache, st, t) ==
    LET f == st[file_path] IN
    IF ~f.exists
    THEN [data |-> EmptyDict, cache |-> cache, reread |-> FALSE, aliased |-> FALSE]
    ELSE IF /\ file_path \in DOMAIN cache
            /\ CacheStillValid(cache[file_path].mtime, f.mtime, t,
                               cache[file_path].loaded_at)
    THEN [data |-> cache[file_path].data, cache |-> cache,
          reread |-> FALSE, aliased |-> TRUE]
    ELSE LET data == SafeLoad(f) IN
         [data    |-> data,
          cache   |-> SetItem(cache, file_path,
                              [data |-> data, mtime |-> f.mtime, loaded_at |-> t]),
          reread  |-> TRUE,
          aliased |-> TRUE]

\* The search keys of get_favicon_cache, most specific first.
RECURSIVE HostSuffixes(_)
HostSuffixes(tokens) ==
    IF Len(tokens) > 1
    THEN <<Join(tokens, ".")>> \o HostSuffixes(Tail(tokens))
    ELSE <<>>

search_paths(page_url) ==
    LET parsed == urlparse(page_url)
        p1     == IF StartsWith(parsed.path, "/")
                  THEN SubSeq(parsed.path, 2, Len(parsed.path))
                  ELSE parsed.path
        first  == IF Len(p1) > 0
                  THEN <<parsed.netloc \o "/" \o Split(p1, "/")[1]>>
                  ELSE <<>>
    IN  first \o HostSuffixes(Split(parsed.netloc, "."))

\* for s in search_paths: if favicon := cache_dict.get(s): return RelLink(...)
RECURSIVE FirstHit(_, _)
FirstHit(cache_dict, paths) ==
    IF Len(paths) = 0 THEN <<>>
    ELSE IF Truthy(DictGet(cache_dict, paths[1]))
         THEN <<CachedLink(cache_dict[paths[1]], paths[1])>>
         ELSE FirstHit(cache_dict, Tail(paths))

\* A variant of the search that walks the keys first and the tiers second, so
\* that a more specific key of a lower tier wins.
RECURSIVE TierSearchKeyMajor(_, _)
TierSearchKeyMajor(dicts, paths) ==
    IF Len(paths) = 0 THEN <<>>
    ELSE LET hits == SelectSeq([i \in 1..Len(dicts) |->
                                   FirstHit(dicts[i], <<paths[1]>>)],
                               LAMBDA h : h # <<>>)
         IN  IF Len(hits) > 0 THEN hits[1]
             ELSE TierSearchKeyMajor(dicts, Tail(paths))

\* for cache_dict in [overrides, defaults, discovered]: ...; return None
\* The result is <<>> for None and <<r>> for the RelLink r.
RECURSIVE TierSearch(_, _)
TierSearch(dicts, paths) ==
    IF Len(dicts) = 0 THEN <<>>
    ELSE LET hit == FirstHit(dicts[1], paths) IN
         IF hit # <<>> THEN hit ELSE TierSearch(Tail(dicts), paths)

\* get_favicon_cache(page_url) on the read cache `cache`: the three loads, then
\* the search.  Returns the result and the read cache afterwards.
get_favicon_cache(page_url, cache, st, t) ==
    LET discovered == load_yaml_with_cache(FAVICON_LOCAL_CACHE, cache, st, t)
        defaults   == load_yaml_with_cache(FAVICON_DEFAULTS, discovered.cache, st, t)
        overrides  == load_yaml_with_cache(FAVICON_OVERRIDES, defaults.cache, st, t)
    IN  [result |-> TierSearch(<<overrides.data, defaults.data, discovered.data>>,
                               search_paths(page_url)),
         cache  |-> overrides.cache,
         loaded |-> [p \in Paths |->
                        IF p = FAVICON_LOCAL_CACHE THEN discovered
                        ELSE IF p = FAVICON_DEFAULTS THEN defaults
                        ELSE overrides]]

\* The key normalisation of add_favicon_to_cache.
NormalizeKey(cache_key) ==
    IF StartsWith(cache_key, "www.") THEN Replace(cache_key, "www.", "")
    ELSE cache_key

\* A variant of add_favicon_to_cache that leaves the read cache entry in place.
InvalidateSkipped(cache, file_path) == cache

\* The last statement of add_favicon_to_cache: drop the read cache entry.
Invalidate(cache, file_path) ==
    IF file_path \in DOMAIN cache THEN DelItem(cache, file_path) ELSE cache

\* What the ghost variable `last` keeps of one _load_yaml_with_cache call: the
\* file and the read cache entry as they were before it, and what it returned.
LoadRecord(file_path, cache, st, t, l) ==
    [exists    |-> st[file_path].exists,
     smtime    |-> st[file_path].mtime,
     sdata     |-> SafeLoad(st[file_path]),
     had       |-> file_path \in DOMAIN cache,
     cmtime    |-> IF file_path \in DOMAIN cache THEN cache[file_path].mtime ELSE NoneInt,
     loaded_at |-> IF file_path \in DOMAIN cache THEN cache[file_path].loaded_at ELSE NoneInt,
     cdata     |-> IF file_path \in DOMAIN cache THEN cache[file_path].data ELSE EmptyDict,
     at        |-> t,
     reread    |-> l.reread,
     data      |-> l.data]

\* add_favicon_to_cache(cache_key, favicon_link) up to the open() of the write:
\* the load, the key normalisation, and the item assignment, which changes the
\* read cache entry too when the loaded dict is the object that entry holds.
AddPrepare(cache_key, favicon_link, cache, st, t) ==
    LET l    == load_yaml_with_cache(FAVICON_LOCAL_CACHE, cache, st, t)
        key  == NormalizeKey(cache_key)
        data == SetItem(l.data, key, favicon_link)
    IN  [key   |-> key,
         data  |-> data,
         load  |-> l,
         cache |-> IF l.aliased
                   THEN SetItem(l.cache, FAVICON_LOCAL_CACHE,
                                [l.cache[FAVICON_LOCAL_CACHE] EXCEPT !.data = data])
                   ELSE l.cache]

\* The whole of add_favicon_to_cache when the write succeeds: the files and the
\* read cache afterwards.  A write gives the file a modification time it never
\* had before.
add_favicon_to_cache(cache_key, favicon_link, cache, st, t) ==
    LET a == AddPrepare(cache_key, favicon_link, cache, st, t) IN
    [store |-> [st EXCEPT ![FAVICON_LOCAL_CACHE] =
                    YamlFile(a.data, st[FAVICON_LOCAL_CACHE].mtime + 1)],
     cache |-> Invalidate(a.cache, FAVICON_LOCAL_CACHE),
     key   |-> a.key,
     load  |-> a.load]

(***************************************************************************)
(* The cache operations as actions.                                        *)
(***************************************************************************)
MaxTime == 5
MaxMtime == 2

CachePages == {"http://ex.com/blog/post1", "http://www.ex.com/blog", "http://b.ex.com"}

AddKeys == {"www.ex.com/blog", "ex.com", "b.ex.com/"}

AddHrefs == {"http://x.io/1.png", "http://x.io/2.png"}

OverridesContents ==
    { Dict({"ex.com"}, "http://o.io/1.png"),
      Dict({"www.ex.com/blog", "b.ex.com"}, "http://o.io/2.png") }

DefaultsContents ==
    { Dict({"ex.com/blog", "b.ex.com"}, "http://d.io/1.png") }

DiscoveredContents ==
    { Dict({"ex.com/blog"}, "http://x.io/0.png") }

InitCache ==
    /\ store \in [Paths -> {NoFile} \cup {YamlFile(d, 0) :
                     d \in OverridesContents \cup DefaultsContents
                           \cup DiscoveredContents}]
    /\ store[FAVICON_OVERRIDES].data \in {EmptyDict} \cup OverridesContents
    /\ store[FAVICON_DEFAULTS].data \in {EmptyDict} \cup DefaultsContents
    /\ store[FAVICON_LOCAL_CACHE].data \in {EmptyDict} \cup DiscoveredContents
    /\ yamlCache = <<>>
    /\ now = 0
    /\ last = [op |-> "none"]
    /\ IdleSort
    /\ IdleText
    /\ IdleClip
    /\ IdleRace
    /\ IdleLinks

\* One call get_favicon_cache(page_url).
GetCall(page_url) ==
    LET g == get_favicon_cache(page_url, yamlCache, store, now) IN
    /\ yamlCache' = g.cache
    /\ last' = [op     |-> "get",
                page   |-> page_url,
                result |-> g.result,
                at     |-> now,
                loads  |-> [p \in Paths |->
                              LoadRecord(p, yamlCache, store, now, g.loaded[p])],
                prev   |-> IF last.op = "add"
                           THEN [op |-> "add", arg |-> last.arg, key |-> last.key,
                                 href |-> last.href, at |-> last.at,
                                 had |-> last.load.had]
                           ELSE [op |-> last.op]]
    /\ UNCHANGED <<store, now>>
    /\ UNCHANGED sortVars
    /\ UNCHANGED textVars
    /\ UNCHANGED clipVars
    /\ UNCHANGED raceVars
    /\ UNCHANGED linkVars

\* One call add_favicon_to_cache(cache_key, favicon_link) that returns.
AddCall(cache_key, favicon_link) ==
    LET a == add_favicon_to_cache(cache_key, favicon_link, yamlCache, store, now) IN
    /\ store[FAVICON_LOCAL_CACHE].mtime < MaxMtime
    /\ store' = a.store
    /\ yamlCache' = a.cache
    /\ last' = [op |-> "add", arg |-> cache_key, key |-> a.key,
                href |-> favicon_link, at |-> now,
                load |-> LoadRecord(FAVICON_LOCAL_CACHE, yamlCache, store, now, a.load)]
    /\ UNCHANGED now
    /\ UNCHANGED sortVars
    /\ UNCHANGED textVars
    /\ UNCHANGED clipVars
    /\ UNCHANGED raceVars
    /\ UNCHANGED linkVars

\* One call add_favicon_to_cache whose open(FAVICON_LOCAL_CACHE, "w") raises
\* (the directory is not writable): the file is untouched and the exception
\* leaves the function before the invalidation.
AddFails(cache_key, favicon_link) ==
    LET a == AddPrepare(cache_key, favicon_link, yamlCache, store, now) IN
    /\ yamlCache' = a.cache
    /\ last' = [op |-> "add_failed", arg |-> cache_key, key |-> a.key,
                href |-> favicon_link, at |-> now]
    /\ UNCHANGED <<store, now>>
    /\ UNCHANGED sortVars
    /\ UNCHANGED textVars
    /\ UNCHANGED clipVars
    /\ UNCHANGED raceVars
    /\ UNCHANGED linkVars

\* The user edits static/favicon-overrides.yml (or removes it, or leaves it
\* without a mapping in it).
EditOverrides(f) ==
    /\ store[FAVICON_OVERRIDES].mtime < MaxMtime
    /\ f.mtime = store[FAVICON_OVERRIDES].mtime + 1
    /\ [f EXCEPT !.mtime = 0] # [store[FAVICON_OVERRIDES] EXCEPT !.mtime = 0]
    /\ store' = [store EXCEPT ![FAVICON_OVERRIDES] = f]
    /\ UNCHANGED <<yamlCache, now, last>>
    /\ UNCHANGED sortVars
    /\ UNCHANGED textVars
    /\ UNCHANGED clipVars
    /\ UNCHANGED raceVars
    /\ UNCHANGED linkVars

OverridesEdits ==
    LET m == store[FAVICON_OVERRIDES].mtime + 1 IN
    {[NoFile EXCEPT !.mtime = m], BadFile(m)}
    \cup {YamlFile(d, m) : d \in OverridesContents}

\* A second passes; no cache operation has just returned.
Tick ==
    /\ now < MaxTime
    /\ now' = now + 1
    /\ last' = [op |-> "none"]
    /\ UNCHANGED <<store, yamlCache>>
    /\ UNCHANGED sortVars
    /\ UNCHANGED textVars
    /\ UNCHANGED clipVars
    /\ UNCHANGED raceVars
    /\ UNCHANGED linkVars

\* The cache operations in any order, all within one second.
NextCache ==
    \/ \E page_url \in CachePages : GetCall(page_url)
    \/ \E k \in AddKeys, h \in AddHrefs : AddCall(k, h)

SpecCache == InitCache /\ [][NextCache]_vars

\* The cache operations of one page, one discovery and the edits of the overrides
\* file, as the seconds pass.
LoadPage == "http://ex.com/blog/post1"

InitLoad ==
    /\ store = [p \in Paths |->
                  IF p = FAVICON_DEFAULTS
                  THEN YamlFile(Dict({"ex.com"}, "http://d.io/1.png"), 0)
                  ELSE NoFile]
    /\ yamlCache = <<>>
    /\ now = 0
    /\ last = [op |-> "none"]
    /\ IdleSort
    /\ IdleText
    /\ IdleClip
    /\ IdleRace
    /\ IdleLinks

NextLoad ==
    \/ GetCall(LoadPage)
    \/ AddCall("www.ex.com/blog", "http://x.io/1.png")
    \/ \E f \in OverridesEdits : EditOverrides(f)
    \/ Tick

SpecLoad == InitLoad /\ [][NextLoad]_vars

(***************************************************************************)
(* Claims about the tiered cache.                                          *)
(***************************************************************************)
Min(S) == CHOOSE x \in S : \A y \in S : x <= y

\* The positions of the search keys that mapping d holds.
KeysPresent(d, sp) == {i \in 1..Len(sp) : sp[i] \in DOMAIN d}

\* res is a hit on the most specific search key that d holds.
HitFrom(res, d, sp) ==
    LET k == sp[Min(KeysPresent(d, sp))] IN
    /\ res # <<>>
    /\ res[1].cache_key = k
    /\ res[1].href = d[k]

\* The mapping the last get_favicon_cache call got for a tier.
Loaded(p) == last.loads[p].data

\* C2: tier precedence over key specificity: a search key present in overrides
\* makes the hit come from overrides whatever the other tiers hold, else one
\* present in defaults makes it come from defaults, else from discovered; within
\* the tier the most specific key wins; None only when no tier holds a key.
C2_TierPrecedence ==
    last.op = "get" =>
        LET sp == search_paths(last.page)
            o  == Loaded(FAVICON_OVERRIDES)
            d  == Loaded(FAVICON_DEFAULTS)
            x  == Loaded(FAVICON_LOCAL_CACHE)
        IN  IF KeysPresent(o, sp) # {} THEN HitFrom(last.result, o, sp)
            ELSE IF KeysPresent(d, sp) # {} THEN HitFrom(last.result, d, sp)
            ELSE IF KeysPresent(x, sp) # {} THEN HitFrom(last.result, x, sp)
            ELSE last.result = <<>>

\* A lookup answered from overrides although defaults holds a more specific key.
C2_Witness ==
    /\ last.op = "get"
    /\ LET sp == search_paths(last.page)
           o  == KeysPresent(Loaded(FAVICON_OVERRIDES), sp)
           d  == KeysPresent(Loaded(FAVICON_DEFAULTS), sp)
       IN  /\ o # {}
           /\ d # {}
           /\ Min(d) < Min(o)
           /\ last.result # <<>>
           /\ last.result[1].href = Loaded(FAVICON_OVERRIDES)[sp[Min(o)]]

\* After add_favicon_to_cache returns the read cache holds no entry for the
\* discovered store.
NoEntryAfterAdd ==
    last.op = "add" => FAVICON_LOCAL_CACHE \notin DOMAIN yamlCache

\* The get_favicon_cache call that follows an add re-reads the discovered store
\* and finds the new entry in it.
NextGetRereads ==
    (last.op = "get" /\ last.prev.op = "add") =>
        /\ last.loads[FAVICON_LOCAL_CACHE].reread
        /\ last.prev.key \in DOMAIN Loaded(FAVICON_LOCAL_CACHE)
        /\ Loaded(FAVICON_LOCAL_CACHE)[last.prev.key] = last.prev.href

\* The added key is a search key of the looked-up page and no search key is in
\* overrides or defaults.
AddedKeyApplies ==
    LET sp == search_paths(last.page) IN
    /\ \E i \in 1..Len(sp) : sp[i] = last.prev.key
    /\ KeysPresent(Loaded(FAVICON_OVERRIDES), sp) = {}
    /\ KeysPresent(Loaded(FAVICON_DEFAULTS), sp) = {}

\* No search key more specific than the added one is in the discovered store.
AddedKeyMostSpecific ==
    LET sp == search_paths(last.page) IN
    \A i \in KeysPresent(Loaded(FAVICON_LOCAL_CACHE), sp) :
        \A j \in 1..Len(sp) : sp[j] = last.prev.key => j <= i

\* C4 (as amended): after add_favicon_to_cache(key, href) returns, the read cache
\* holds no entry for the discovered store, so the next get_favicon_cache
\* re-reads it and finds the entry; it returns href when the normalized key is a
\* search key of the page, no override or default matches, and the discovered
\* store holds no more specific search key of the page.
C4_AddInvalidates ==
    /\ NoEntryAfterAdd
    /\ NextGetRereads
    /\ (last.op = "get" /\ last.prev.op = "add"
        /\ AddedKeyApplies /\ AddedKeyMostSpecific)
       => (last.result # <<>> /\ last.result[1].href = last.prev.href)

\* C4 as stated: the next get_favicon_cache returns href whenever the normalized
\* key is a search key of the page and no override or default matches.
C4_AsStated ==
    /\ NoEntryAfterAdd
    /\ NextGetRereads
    /\ (last.op = "get" /\ last.prev.op = "add" /\ AddedKeyApplies)
       => (last.result # <<>> /\ last.result[1].href = last.prev.href)

\* A lookup right after an add, in the same second, of a page the added key
\* applies to; the add found the discovered store in the read cache.
C4_Witness ==
    /\ last.op = "get"
    /\ last.prev.op = "add"
    /\ last.prev.had
    /\ last.at - last.prev.at < FAVICON_CACHE_TTL
    /\ AddedKeyApplies
    /\ last.result # <<>>
    /\ last.result[1].href = last.prev.href

\* What one _load_yaml_with_cache call of an existing store must have done.
LoadContract(l, entryAfter) ==
    LET fresh == /\ l.had
                 /\ l.cmtime = l.smtime
                 /\ l.at - l.loaded_at < FAVICON_CACHE_TTL
    IN  /\ l.reread <=> ~fresh
        /\ fresh => /\ l.data = l.cdata
                    /\ entryAfter = [data |-> l.cdata, mtime |-> l.cmtime,
                                     loaded_at |-> l.loaded_at]
        /\ ~fresh => /\ l.data = l.sdata
                     /\ entryAfter = [data |-> l.sdata, mtime |-> l.smtime,
                                      loaded_at |-> l.at]

Served(kind, w, h) == [kind |-> kind, w |-> w, h |-> h]

Unreachable == Served("fail", 0, 0)

NetGet(world, url) == IF url \in DOMAIN world THEN world[url] ELSE Unreachable

\* SerializedResponse.get_type() of a response of the given kind.
get_type(kind) ==
    IF kind \in {"png", "ico", "svg"} THEN "image/" \o kind
    ELSE IF kind = "html" THEN "code/html"
    ELSE None

\* SerializedResponse.image_size(): None unless the content is an image;
\* (0, 0) for SVG.
image_size(o) ==
    IF o.kind = "svg" THEN <<0, 0>>
    ELSE IF o.kind \in {"png", "ico", "untyped"} THEN <<o.w, o.h>>
    ELSE <<NoneInt, NoneInt>>

\* The SerializedResponse that the body of get_url builds for one request.
Request(world, url) ==
    LET o == NetGet(world, url) IN
    IF o.kind = "fail"
    THEN [source_url |-> url, resolved_url |-> None, type |-> None,
          image_width |-> NoneInt, image_height |-> NoneInt,
          error |-> "RequestException"]
    ELSE [source_url |-> url, resolved_url |-> url, type |-> get_type(o.kind),
          image_width |-> image_size(o)[1], image_height |-> image_size(o)[2],
          error |-> None]

\* url_util.get_url under functools.lru_cache: a URL already in the cache is
\* answered from it without a request.  (maxsize=64 is never reached here.)
get_url(url, cache, world) ==
    IF url \in DOMAIN cache
    THEN [resp |-> cache[url], cache |-> cache, requested |-> {}]
    ELSE LET r == Request(world, url) IN
         [resp |-> r,
          cache |-> [u \in (DOMAIN cache) \cup {url} |->
                        IF u = url THEN r ELSE cache[u]],
          requested |-> {url}]

(***************************************************************************)
(* RelLink.validate                                                        *)
(***************************************************************************)
\* A validate that does not look at the _validated flag.
NeverValidated(x) == FALSE

\* The early return of validate.
AlreadyValidated(x) == x.validated

\* x.validate(): the object afterwards, the return value, the get_url cache
\* afterwards, and the URLs requested from the network.
validate(x, cache, world) ==
    IF AlreadyValidated(x)
    THEN [link |-> x, ret |-> is_valid(x), cache |-> cache, requested |-> {},
          fetched |-> FALSE]
    ELSE LET g == get_url(x.href, cache, world)
             y == [x EXCEPT !.validated = TRUE,
                            !.nfetch = @ + 1,
                            !.resolved_href = g.resp.resolved_url]
         IN  IF g.resp.image_width # NoneInt
             THEN [link |-> [y EXCEPT !.image_type = g.resp.type,
                                      !.width = g.resp.image_width,
                                      !.height = g.resp.image_height],
                   ret |-> TRUE, cache |-> g.cache, requested |-> g.requested,
                   fetched |-> TRUE]
             ELSE [link |-> y, ret |-> FALSE, cache |-> g.cache,
                   requested |-> g.requested, fetched |-> TRUE]

(***************************************************************************)
(* get_favicon_links                                                       *)
(*                                                                         *)
(* soup is None or a parsed document; of a document the function reads     *)
(* whether it has a <head> and the <link> tags of the head in document     *)
(* order.  A tag's rel is the list the parser gives for the attribute,     *)
(* the empty list when it is missing.                                      *)
(***************************************************************************)
NoSoup == [parsed |-> FALSE, head |-> FALSE, tags |-> <<>>]

Soup(head, tags) == [parsed |-> TRUE, head |-> head, tags |-> tags]

LinkTag(href, rel, sizes) == [href |-> href, rel |-> rel, sizes |-> sizes]

\* for r in rel: if r in FAVICON_REL
HasFaviconRel(rel) == \E k \in DOMAIN rel : rel[k] \in FAVICON_REL

\* A pass that remembers no href.
NeverSeen(href, seen) == FALSE

\* if href in seen: continue
AlreadySeen(href, seen) == href \in seen

\* One iteration of the loop over head.find_all('link').  done is TRUE when
\* the iteration returned from the function (include != "all").
HeadStep(page_url, link, include, seen, acc) ==
    LET href == make_absolute_urls(page_url, link.href)
        r    == [RelLink(href) EXCEPT !.rel = link.rel, !.sizes = link.sizes]
    IN  IF ~Truthy(link.href)
        THEN [links |-> acc, seen |-> seen, done |-> FALSE]
        ELSE IF AlreadySeen(href, seen)
        THEN [links |-> acc, seen |-> seen, done |-> FALSE]
        ELSE IF HasFaviconRel(link.rel)
        THEN [links |-> Append(acc, r), seen |-> seen \cup {href},
              done |-> include # "all"]
        ELSE [links |-> acc, seen |-> seen \cup {href}, done |-> FALSE]

RECURSIVE HeadScan(_, _, _, _, _)
HeadScan(page_url, tags, include, seen, acc) ==
    IF Len(tags) = 0 THEN [links |-> acc, seen |-> seen, done |-> FALSE]
    ELSE LET st == HeadStep(page_url, tags[1], include, seen, acc) IN
         IF st.done THEN st
         ELSE HeadScan(page_url, Tail(tags), include, st.seen, st.links)

\* One iteration of the loop over COMMON_FAVICON_FILES.
CommonStep(page_host, f, include, seen, acc) ==
    LET href == make_absolute_urls(page_host, f) IN
    IF AlreadySeen(href, seen)
    THEN [links |-> acc, seen |-> seen, done |-> FALSE]
    ELSE [links |-> Append(acc, RelLink(href)), seen |-> seen \cup {href},
          done |-> include # "all"]

RECURSIVE CommonScan(_, _, _, _, _)
CommonScan(page_host, files, include, seen, acc) ==
    IF Len(files) = 0 THEN [links |-> acc, seen |-> seen, done |-> FALSE]
    ELSE LET st == CommonStep(page_host, files[1], include, seen, acc) IN
         IF st.done THEN st
         ELSE CommonScan(page_host, Tail(files), include, st.seen, st.links)

\* img_util.convert_ico / convert_svg: the PNG bytes, or None.  Both request
\* the href themselves.
convert_ico(href, world) ==
    IF ~EndsWith(Lower(href), ".ico") THEN None
    ELSE IF NetGet(world, href).kind = "ico" THEN "PNG" ELSE None

convert_svg(href, world) ==
    IF ~EndsWith(Lower(href), ".svg") THEN None
    ELSE IF NetGet(world, href).kind = "svg" THEN "PNG" ELSE None

\* has_non_ico_svg
has_non_ico_svg(ls) ==
    \E i \in DOMAIN ls :
        /\ Truthy(ls[i].image_type)
        /\ ls[i].image_type \notin {"image/ico", "image/svg"}

\* The candidate the conversion loop builds for one link: <<>> when it adds
\* none.
ConversionOf(link, world) ==
    LET path == IF link.image_type = "image/ico" THEN ICO_TO_PNG_PATH
                ELSE SVG_TO_PNG_PATH
        conv == IF link.image_type = "image/ico"
                THEN convert_ico(link.href, world)
                ELSE convert_svg(link.href, world)
        r    == [RelLink(conv_href(path, link.href)) EXCEPT
                    !.rel = link.rel, !.sizes = link.sizes]
    IN  IF link.image_type \notin {"image/ico", "image/svg"} THEN <<>>
        ELSE IF conv = None THEN <<>>
        ELSE IF is_valid(r) THEN <<r>>
        ELSE <<>>

RECURSIVE conversion_links(_, _)
conversion_links(ls, world) ==
    IF Len(ls) = 0 THEN <<>>
    ELSE ConversionOf(ls[1], world) \o conversion_links(Tail(ls), world)

\* The URLs convert_ico / convert_svg request during the conversion loop.
ConversionRequests(ls) ==
    { ls[i].href : i \in { j \in DOMAIN ls :
        \/ /\ ls[j].image_type = "image/ico"
           /\ EndsWith(Lower(ls[j].href), ".ico")
        \/ /\ ls[j].image_type = "image/svg"
           /\ EndsWith(Lower(ls[j].href), ".svg") } }

\* if not soup: return links
SoupMissing(soup) == ~soup.parsed

\* The value of a return statement of get_favicon_links: the list, the name
\* of the return statement taken, and the URLs requested from the network.
\* c is what get_favicon_cache gave.
GflReturn(c, ls, stage, requested) ==
    [links |-> ls, stage |-> stage, hit |-> c.result # <<>>,
     ycache |-> c.cache, requested |-> requested]

\* Lines 377-418: the conversion pass and the final return.
GflConversions(c, ls, world) ==
    IF has_non_ico_svg(ls) THEN GflReturn(c, ls, "full", {})
    ELSE GflReturn(c, ls \o conversion_links(ls, world), "full",
                   ConversionRequests(ls))

\* Lines 361-375: the conventional files, after the head scan hs.
GflCommon(c, page_url, include, hs, world) ==
    LET parsed == urlparse(page_url)
        cs == CommonScan(urlunparse(parsed.scheme, parsed.netloc, ""),
                         COMMON_FAVICON_FILES, include, hs.seen, hs.links)
    IN  IF cs.done THEN GflReturn(c, cs.links, "common", {})
        ELSE GflConversions(c, cs.links, world)

\* Lines 327-359: the head scan.
GflHead(c, page_url, soup, include, seen, world) ==
    LET hs == IF soup.head
              THEN HeadScan(page_url, soup.tags, include, seen, c.result)
              ELSE [links |-> c.result, seen |-> seen, done |-> FALSE]
    IN  IF hs.done THEN GflReturn(c, hs.links, "head", {})
        ELSE GflCommon(c, page_url, include, hs, world)

\* Lines 318-325: the cache hit and the missing soup.
GflAfterLookup(c, page_url, soup, include, world) ==
    IF c.result # <<>> /\ include # "all"
    THEN GflReturn(c, c.result, "cache", {})
    ELSE IF SoupMissing(soup) THEN GflReturn(c, c.result, "nosoup", {})
    ELSE GflHead(c, page_url, soup, include,
                 IF c.result # <<>> THEN {c.result[1].href} ELSE {}, world)

\* get_favicon_links(page_url, soup, include)
get_favicon_links(page_url, soup, include, ycache, st, t, world) ==
    GflAfterLookup(get_favicon_cache(page_url, ycache, st, t),
                   page_url, soup, include, world)

(***************************************************************************)
(* validate_top_candidates                                                 *)
(***************************************************************************)
\* A loop that never breaks.
NeverEnough(validated, max_count) == FALSE

\* if len(validated) >= max_count: break
Enough(validated, max_count) == Len(validated) >= max_count

\* The state of the loop: ls is the list with the objects as mutated so far,
\* validated the positions collected so far, called the positions validate()
\* was called on, in call order, stopped the position of the break (0: none).
VtcStart(ls, cache) ==
    [links |-> ls, validated |-> <<>>, called |-> <<>>, cache |-> cache,
     requested |-> {}, stopped |-> 0]

\* One iteration of the loop, at position i.
VtcStep(st, i, max_count, world) ==
    LET v   == validate(st.links[i], st.cache, world)
        got == Append(st.validated, i)
    IN  IF Truthy(st.links[i].cache_key)
        THEN [st EXCEPT !.validated = got,
                        !.stopped = IF Enough(got, max_count) THEN i ELSE 0]
        ELSE IF v.ret
        THEN [st EXCEPT !.links[i] = v.link,
                        !.validated = got,
                        !.called = Append(@, i),
                        !.cache = v.cache,
                        !.requested = @ \cup v.requested,
                        !.stopped = IF Enough(got, max_count) THEN i ELSE 0]
        ELSE [st EXCEPT !.links[i] = v.link,
                        !.called = Append(@, i),
                        !.cache = v.cache,
                        !.requested = @ \cup v.requested]

RECURSIVE VtcLoop(_, _, _, _)
VtcLoop(st, i, max_count, world) ==
    IF i > Len(st.links) THEN st
    ELSE LET st2 == VtcStep(st, i, max_count, world) IN
         IF st2.stopped # 0 THEN st2
         ELSE VtcLoop(st2, i + 1, max_count, world)

\* validate_top_candidates(links, max_count): the returned list is the objects
\* at the positions `validated`.
validate_top_candidates(ls, max_count, cache, world) ==
    VtcLoop(VtcStart(ls, cache), 1, max_count, world)

(***************************************************************************)
(* Discovery and validation of one page's candidates.  The list that       *)
(* get_favicon_links returns goes through sort_favicon_links before        *)
(* validate_top_candidates; on a list of candidates not yet validated the  *)
(* sort changes nothing (SortKeepsDiscoveryOrder), so the walk starts from *)
(* the discovery order.                                                    *)
(***************************************************************************)
MaxCount == 2       \* max_count is drawn from 0..MaxCount
MaxDirect == 2      \* positions on which validate() is called directly

LinkPage == "http://ex.com/a/42"

LinkStores ==
    { [p \in Paths |-> IF p = FAVICON_LOCAL_CACHE THEN f ELSE NoFile] :
        f \in { NoFile, YamlFile(Dict({"ex.com"}, "http://x.io/1.png"), 0) } }

Soups ==
    { NoSoup,
      Soup(FALSE, <<>>),
      Soup(TRUE, << LinkTag("m.css", <<"stylesheet">>, None),
                    LinkTag("/s/i.png", <<"icon">>, "32x32") >>) }

Includes == {None, "all"}

\* Only favicon.ico exists at the host root.
OnlyIco == [u \in {"http://ex.com/favicon.ico"} |-> Served("ico", 16, 16)]

\* A site with a PNG icon, an ICO and an SVG; /favicon.png answers with an
\* HTML page and /favicon.jpg with an image of no recognised type.
RichSite ==
    [u \in {"http://ex.com/s/i.png", "http://ex.com/favicon.ico",
            "http://ex.com/favicon.svg", "http://ex.com/favicon.png",
            "http://ex.com/favicon.jpg"} |->
        IF u = "http://ex.com/s/i.png" THEN Served("png", 32, 32)
        ELSE IF u = "http://ex.com/favicon.ico" THEN Served("ico", 16, 16)
        ELSE IF u = "http://ex.com/favicon.svg" THEN Served("svg", 0, 0)
        ELSE IF u = "http://ex.com/favicon.png" THEN Served("html", 0, 0)
        ELSE Served("untyped", 8, 8)]

Worlds == {OnlyIco, RichSite}

InitLinks ==
    /\ store \in LinkStores
    /\ yamlCache = <<>>
    /\ now = 0
    /\ last = [op |-> "none"]
    /\ net \in Worlds
    /\ links = <<>>
    /\ urlCache = <<>>
    /\ lastGfl = [op |-> "none"]
    /\ lastV = [op |-> "none"]
    /\ IdleSort
    /\ IdleText
    /\ IdleClip
    /\ IdleRace

\* The effect of a get_favicon_links call that gave g.
GflDone(page_url, soup, include, g) ==
    /\ links' = g.links
    /\ yamlCache' = g.ycache
    /\ lastGfl' = [op |-> "gfl", page |-> page_url, soup |-> soup,
                   include |-> include, hit |-> g.hit, stage |-> g.stage,
                   result |-> g.links, requested |-> g.requested]
    /\ lastV' = [op |-> "none"]
    /\ UNCHANGED <<store, now, last, net, urlCache>>
    /\ UNCHANGED sortVars
    /\ UNCHANGED textVars
    /\ UNCHANGED clipVars
    /\ UNCHANGED raceVars

\* links = get_favicon_links(page_url, soup, include)
GflCall(page_url, soup, include) ==
    GflDone(page_url, soup, include,
            get_favicon_links(page_url, soup, include, yamlCache, store, now, net))

\* The effect of a links[i].validate() that gave v.
ValidateDone(i, v) ==
    /\ links' = [links EXCEPT ![i] = v.link]
    /\ urlCache' = v.cache
    /\ lastV' = [op |-> "validate", i |-> i, before |-> links[i],
                 after |-> v.link, ret |-> v.ret, fetched |-> v.fetched,
                 requested |-> v.requested]
    /\ UNCHANGED <<store, yamlCache, now, last, net, lastGfl>>
    /\ UNCHANGED sortVars
    /\ UNCHANGED textVars
    /\ UNCHANGED clipVars
    /\ UNCHANGED raceVars

\* links[i].validate()
ValidateCall(i) ==
    /\ i \in DOMAIN links
    /\ i <= MaxDirect
    /\ ValidateDone(i, validate(links[i], urlCache, net))

\* The effect of a validate_top_candidates call that gave r.
VtcDone(max_count, r) ==
    /\ links' = r.links
    /\ urlCache' = r.cache
    /\ lastV' = [op |-> "vtc", max_count |-> max_count, before |-> links,
                 validated |-> r.validated, called |-> r.called,
                 stopped |-> r.stopped, requested |-> r.requested]
    /\ UNCHANGED <<store, yamlCache, now, last, net, lastGfl>>
    /\ UNCHANGED sortVars
    /\ UNCHANGED textVars
    /\ UNCHANGED clipVars
    /\ UNCHANGED raceVars

\* validate_top_candidates(links, max_count)
VtcCall(max_count) ==
    /\ lastGfl.op = "gfl"
    /\ VtcDone(max_count, validate_top_candidates(links, max_count, urlCache, net))

NextLinks ==
    \/ \E soup \in Soups, include \in Includes : GflCall(LinkPage, soup, include)
    \/ \E i \in 1..MaxDirect : ValidateCall(i)
    \/ \E max_count \in 0..MaxCount : VtcCall(max_count)

SpecLinks == InitLinks /\ [][NextLinks]_vars

\* Sorting the list get_favicon_links returned leaves it as it is.
SortKeepsDiscoveryOrder ==
    lastGfl.op = "gfl" =>
        sort_favicon_links(lastGfl.result, FAVICON_WIDTH, lastGfl.include)
            = lastGfl.result

(***************************************************************************)
(* Claims about discovery and validation.                                  *)
(***************************************************************************)
\* What the stores hold for the page of the last get_favicon_links call:
\* <<>> for a miss, <<candidate>> for a hit.
Lookup ==
    TierSearch(<<store[FAVICON_OVERRIDES].data, store[FAVICON_DEFAULTS].data,
                 store[FAVICON_LOCAL_CACHE].data>>,
               search_paths(lastGfl.page))

CacheShortCircuited ==
    lastGfl.op = "gfl" /\ Lookup # <<>> /\ lastGfl.include # "all"

\* C3: when the cache lookup for the page hits and the mode is not "all",
\* get_favicon_links returns exactly one candidate, the cached one, and neither
\* get_favicon_links nor a later validate() / validate_top_candidates on that
\* candidate requests anything from the network.
C3_CacheShortCircuit ==
    CacheShortCircuited =>
        /\ Len(lastGfl.result) = 1
        /\ lastGfl.result = Lookup
        /\ Truthy(lastGfl.result[1].cache_key)
        /\ lastGfl.result[1].href = store[FAVICON_LOCAL_CACHE].data[lastGfl.result[1].cache_key]
        /\ lastGfl.requested = {}
        /\ links = lastGfl.result
        /\ links[1].nfetch = 0
        /\ lastV.op = "validate" =>
              /\ ~lastV.fetched
              /\ lastV.requested = {}
              /\ lastV.ret
        /\ lastV.op = "vtc" =>
              /\ lastV.called = <<>>
              /\ lastV.requested = {}

\* validate() was called on the candidate of a short-circuited lookup.
C3_Witness ==
    /\ CacheShortCircuited
    /\ lastV.op = "validate"
    /\ lastV.i = 1

\* C6: over any sequence of validate() calls on one RelLink its href is fetched
\* at most once, by the first call; a later call fetches nothing, leaves the
\* object as it is and reports the state the first call left.
C6_ValidateMemoized ==
    /\ \A i \in DOMAIN links :
          /\ links[i].nfetch <= 1
          /\ links[i].nfetch = 1 => links[i].validated
          /\ (links[i].validated /\ ~Truthy(links[i].cache_key))
                => links[i].nfetch = 1
    /\ (lastV.op = "validate" /\ lastV.before.validated) =>
          /\ ~lastV.fetched
          /\ lastV.requested = {}
          /\ lastV.after = lastV.before
          /\ lastV.ret = is_valid(lastV.before)
    /\ (lastV.op = "validate" /\ ~lastV.before.validated) =>
          /\ lastV.fetched
          /\ lastV.after.nfetch = 1

\* A second validate() on a candidate whose href was fetched by the first.
C6_Witness ==
    /\ lastV.op = "validate"
    /\ lastV.before.validated
    /\ lastV.before.nfetch = 1

IsIncreasing(seq) == \A a, b \in DOMAIN seq : a < b => seq[a] < seq[b]

Range(seq) == { seq[k] : k \in DOMAIN seq }

\* What validate() returns for the candidate x in the present network.
ValidateSucceeds(x) ==
    IF x.validated THEN is_valid(x)
    ELSE Request(net, x.href).image_width # NoneInt

\* C7: validate_top_candidates with max_count >= 1 walks the list in order,
\* collects cache-sourced candidates without validating them, validates the
\* others on demand and collects those that validate, and validates no
\* candidate after the one that brought the collected number to max_count; the
\* result keeps the order of the list.
C7_WalkInOrder ==
    (lastV.op = "vtc" /\ lastV.max_count >= 1) =>
        LET n      == Len(lastV.before)
            got    == lastV.validated
            stop   == IF Len(got) >= lastV.max_count
                      THEN got[lastV.max_count] ELSE n
            cached == { i \in 1..n : Truthy(lastV.before[i].cache_key) }
        IN  /\ IsIncreasing(got)
            /\ IsIncreasing(lastV.called)
            /\ Len(got) <= lastV.max_count
            /\ Range(lastV.called) = (1..stop) \ cached
            /\ Range(got) =
                  { i \in 1..stop :
                      i \in cached \/ ValidateSucceeds(lastV.before[i]) }
            /\ \A i \in cached : links[i] = lastV.before[i]
            /\ \A i \in (stop + 1)..n : links[i] = lastV.before[i]

\* The walk validated candidates that failed, collected max_count and stopped
\* with candidates left over.
C7_Witness ==
    /\ lastV.op = "vtc"
    /\ lastV.max_count >= 1
    /\ Len(lastV.validated) = lastV.max_count
    /\ Len(lastV.called) > Len(lastV.validated)
    /\ lastV.validated[lastV.max_count] < Len(lastV.before)

\* C8: when get_favicon_links runs its full pass and no collected candidate has
\* a media type other than ICO or SVG, the returned list holds, for every ICO
\* (SVG) candidate whose conversion succeeds, a candidate whose href is the
\* ICO-to-PNG (SVG-to-PNG) conversion-proxy URL of that candidate's href.
C8_ConversionFallback ==
    LET res == lastGfl.result
        OnlyIcoSvg ==
            /\ ~has_non_ico_svg(res)
            /\ \A i \in DOMAIN res :
                  NetGet(net, res[i].href).kind \in {"ico", "svg", "fail"}
    IN  (lastGfl.op = "gfl" /\ lastGfl.stage = "full" /\ OnlyIcoSvg) =>
            \A i \in DOMAIN res :
               /\ (/\ NetGet(net, res[i].href).kind = "ico"
                   /\ convert_ico(res[i].href, net) # None)
                  => \E j \in DOMAIN res :
                        res[j].href = conv_href(ICO_TO_PNG_PATH, res[i].href)
               /\ (/\ NetGet(net, res[i].href).kind = "svg"
                   /\ convert_svg(res[i].href, net) # None)
                  => \E j \in DOMAIN res :
                        res[j].href = conv_href(SVG_TO_PNG_PATH, res[i].href)

\* C9: called without parsed HTML on a cache miss, get_favicon_links returns at
\* least one candidate built from COMMON_FAVICON_FILES at the root of the
\* page's scheme and host, never an empty list.
C9_NoSoupFallsBack ==
    (lastGfl.op = "gfl" /\ ~lastGfl.soup.parsed /\ Lookup = <<>>) =>
        /\ Len(lastGfl.result) >= 1
        /\ \E i \in DOMAIN lastGfl.result, k \in DOMAIN COMMON_FAVICON_FILES :
              lastGfl.result[i].href =
                  urlparse(lastGfl.page).scheme \o "://"
                  \o urlparse(lastGfl.page).netloc \o "/"
                  \o COMMON_FAVICON_FILES[k]

(***************************************************************************)
(* Discovery keys: add_favicon_to_cache with keys that hold "www." in      *)
(* more than one place, and the lookups of the pages they were recorded    *)
(* for.                                                                    *)
(***************************************************************************)
KeyArgs ==
    { "www.ex.com/blog", "www.awww.ex.com/blog", "www.ex.com/www.x",
      "ex.com/www.x", "awww.ex.com/blog" }

KeyPages ==
    { "http://ex.com/blog/post1", "http://awww.ex.com/blog/post1",
      "http://ex.com/www.x/1" }

KeyHref == "http://x.io/1.png"

InitKey ==
    /\ store \in { [p \in Paths |->
                      IF p = FAVICON_LOCAL_CACHE THEN f
                      ELSE IF p = FAVICON_DEFAULTS THEN d
                      ELSE NoFile] :
                   f \in {NoFile, YamlFile(Dict({"ex.com"}, "http://x.io/0.png"), 0)},
                   d \in {NoFile, YamlFile(Dict({"awww.ex.com"}, "http://d.io/1.png"), 0)} }
    /\ yamlCache = <<>>
    /\ now = 0
    /\ last = [op |-> "none"]
    /\ IdleSort
    /\ IdleText
    /\ IdleClip
    /\ IdleRace
    /\ IdleLinks

NextKey ==
    \/ \E page_url \in KeyPages : GetCall(page_url)
    \/ \E k \in KeyArgs : AddCall(k, KeyHref)

SpecKey == InitKey /\ [][NextKey]_vars

\* The key without a leading "www." label.
StripLeadingWww(k) ==
    IF StartsWith(k, "www.") THEN SubSeq(k, 5, Len(k)) ELSE k

\* The first path segment of a URL, "" when the path has none.
FirstSegment(url) ==
    LET path == urlparse(url).path
        rest == IF StartsWith(path, "/") THEN SubSeq(path, 2, Len(path)) ELSE path
    IN  IF rest = "" THEN "" ELSE Split(rest, "/")[1]

\* C11: add_favicon_to_cache("www.H/S", url) followed by get_favicon_cache of a
\* page on host H (two labels or more) with first path segment S returns a
\* candidate with href url, when no overrides or defaults entry matches one of
\* the page's search keys.
C11_RoundTrip ==
    LET H  == urlparse(last.page).netloc
        S  == FirstSegment(last.page)
        sp == search_paths(last.page)
    IN  (/\ last.op = "get"
         /\ last.prev.op = "add"
         /\ Len(Split(H, ".")) >= 2
         /\ S # ""
         /\ last.prev.arg = "www." \o H \o "/" \o S
         /\ KeysPresent(store[FAVICON_OVERRIDES].data, sp) = {}
         /\ KeysPresent(store[FAVICON_DEFAULTS].data, sp) = {})
        => /\ last.result # <<>>
           /\ last.result[1].href = last.prev.href

\* C12: add_favicon_to_cache stores the entry under cache_key without a leading
\* "www." label and with every other character kept; a key that does not start
\* with "www." is stored unchanged.
C12_OnlyLeadingWww ==
    last.op = "add" =>
        LET k == StripLeadingWww(last.arg)
            d == store[FAVICON_LOCAL_CACHE].data
        IN  /\ last.key = k
            /\ k \in DOMAIN d
            /\ d[k] = last.href
            /\ DOMAIN d = (DOMAIN last.load.data) \cup {k}

\* C13: a validate() that does not succeed (failed fetch, or fetched content
\* that is not an image) leaves the candidate invalid, with resolved_href and
\* image_type both still unset.
C13_FailureLeavesUnset ==
    (lastV.op = "validate" /\ ~lastV.before.validated /\ ~lastV.ret) =>
        /\ ~is_valid(lastV.after)
        /\ lastV.after.resolved_href = None
        /\ lastV.after.image_type = None

(***************************************************************************)
(* text_util.py and unicode_util.py: characters, tokens and words.         *)
(*                                                                         *)
(* The texts are ASCII.  unicodedata.category maps a letter to L, a digit  *)
(* to N, the space to Z, a control character to C, and the remaining       *)
(* printable characters to P or S (the backquote does not occur).          *)
(***************************************************************************)
PunctChars == "!\"#%&'()*,-./:;?@[\\]_{}"
SymbolChars == "$+<=>^|~"

\* The characters of s, as a set.
Chars(s) == { SubSeq(s, i, i) : i \in 1..Len(s) }

LetterSet == Chars(UpperCase \o LowerCase)
DigitSet == Chars(Digits)
PunctSet == Chars(PunctChars)
SymbolSet == Chars(SymbolChars)

\* CATEGORY_MAP[unicodedata.category(c)]
CharCategory(c) ==
    IF c \in LetterSet THEN "L"
    ELSE IF c \in DigitSet THEN "N"
    ELSE IF c = " " THEN "Z"
    ELSE IF c \in PunctSet THEN "P"
    ELSE IF c \in SymbolSet THEN "S"
    ELSE "C"

\* CATEGORY_NAMES, in order, and STANDARD_TENSOR in hundredths.
CATEGORY_NAMES == <<"L", "Z", "P", "S", "N", "M", "C">>
STANDARD_TENSOR == <<85, 12, 30, 0, 0, 0, 0>>

\* count_categories(s)[cat]
CountCategory(s, cat) ==
    Cardinality({ i \in 1..Len(s) : CharCategory(SubSeq(s, i, i)) = cat })

Square(x) == x * x

\* The sum of squares of standard_distance for a text of total > 0 characters,
\* times (100 * total)^2: sum over k of (100 * c[k] - STANDARD_TENSOR[k] * total)^2.
RECURSIVE SquaredDistance(_, _, _)
SquaredDistance(s, total, k) ==
    IF k > Len(CATEGORY_NAMES) THEN 0
    ELSE Square(100 * CountCategory(s, CATEGORY_NAMES[k])
                - STANDARD_TENSOR[k] * total)
         + SquaredDistance(s, total, k + 1)

\* standard_distance(count_categories(s)) as the exact fraction num/den of its
\* square; NoneDist is None.
NoneDist == [num |-> NoneInt, den |-> 1]

standard_distance(s) ==
    [num |-> SquaredDistance(s, Len(s), 1), den |-> 10000 * Len(s) * Len(s)]

\* a/b < c/d for naturals with b, d > 0, without a product: by whole parts,
\* then by the inverted remainders.
RECURSIVE FracLess(_, _, _, _)
FracLess(a, b, c, d) ==
    IF a \div b # c \div d THEN a \div b < c \div d
    ELSE IF a % b = 0 THEN c % d > 0
    ELSE IF c % d = 0 THEN FALSE
    ELSE FracLess(d, c % d, b, a % b)

\* a < b for two distances
DistLess(a, b) == FracLess(a.num, a.den, b.num, b.den)

\* standard_dist < 0.4: the square below 16/100, den being a multiple of 25.
BelowPoint4(d) == d.num < 4 * (d.den \div 25)

\* is_alnum(c)
is_alnum(c) == CharCategory(c) \in {"L", "N"}

\* strip_not_alnum(s)
RECURSIVE StripLeftNotAlnum(_)
StripLeftNotAlnum(s) ==
    IF s = "" THEN ""
    ELSE IF is_alnum(SubSeq(s, 1, 1)) THEN s
    ELSE StripLeftNotAlnum(SubSeq(s, 2, Len(s)))

RECURSIVE StripRightNotAlnum(_)
StripRightNotAlnum(s) ==
    IF s = "" THEN ""
    ELSE IF is_alnum(SubSeq(s, Len(s), Len(s))) THEN s
    ELSE StripRightNotAlnum(SubSeq(s, 1, Len(s) - 1))

strip_not_alnum(s) == StripRightNotAlnum(StripLeftNotAlnum(s))

\* Python's white space, for the characters of the texts used here.
IsSpace(c) == c = " " \/ c = "\n"

\* s.rstrip(), s.lstrip(), s.strip()
RECURSIVE RStrip(_)
RStrip(s) ==
    IF s = "" THEN ""
    ELSE IF IsSpace(SubSeq(s, Len(s), Len(s))) THEN RStrip(SubSeq(s, 1, Len(s) - 1))
    ELSE s

RECURSIVE LStrip(_)
LStrip(s) ==
    IF s = "" THEN ""
    ELSE IF IsSpace(SubSeq(s, 1, 1)) THEN LStrip(SubSeq(s, 2, Len(s)))
    ELSE s

Strip(s) == RStrip(LStrip(s))

\* The length of the run of non-space characters s starts with.
RunLength(s) ==
    IF \E k \in 1..Len(s) : IsSpace(SubSeq(s, k, k))
    THEN (CHOOSE k \in 1..Len(s) :
             /\ IsSpace(SubSeq(s, k, k))
             /\ \A j \in 1..(k - 1) : ~IsSpace(SubSeq(s, j, j))) - 1
    ELSE Len(s)

\* s.split(): the runs of non-space characters.
RECURSIVE SplitWs(_)
SplitWs(s) ==
    IF LStrip(s) = "" THEN <<>>
    ELSE <<SubSeq(LStrip(s), 1, RunLength(LStrip(s)))>>
         \o SplitWs(SubSeq(LStrip(s), RunLength(LStrip(s)) + 1, Len(LStrip(s))))

\* s.splitlines(): the lines between "\n", no empty last line.
RECURSIVE SplitLines(_)
SplitLines(s) ==
    IF s = "" THEN <<>>
    ELSE IF Find(s, "\n", 1) = 0 THEN <<s>>
    ELSE <<SubSeq(s, 1, Find(s, "\n", 1) - 1)>>
         \o SplitLines(SubSeq(s, Find(s, "\n", 1) + 1, Len(s)))

\* Every character of s is one of chars.
AllIn(s, chars) == \A i \in 1..Len(s) : Contains(chars, SubSeq(s, i, i))

\* The number of occurrences of the character c in s.
CountChar(s, c) == Cardinality({ i \in 1..Len(s) : SubSeq(s, i, i) = c })

\* s without one leading sign.
Unsigned(s) ==
    IF StartsWith(s, "+") \/ StartsWith(s, "-") THEN SubSeq(s, 2, Len(s)) ELSE s

\* float(s) does not raise ValueError: a decimal numeral, or one of inf,
\* infinity, nan.  (Exponents and underscores do not occur in the texts.)
IsFloat(s) ==
    \/ Lower(Unsigned(s)) \in {"inf", "infinity", "nan"}
    \/ /\ AllIn(Unsigned(s), Digits \o ".")
       /\ CountChar(Unsigned(s), ".") <= 1
       /\ Len(Unsigned(s)) > CountChar(Unsigned(s), ".")

\* The NLTK word list and the words WordNet has synsets for beyond it: the
\* vocabulary of the texts used here.
nltk_words ==
    { "welcome", "to", "our", "store", "browse", "new", "today", "the",
      "quick", "brown", "fox", "small", "large", "more", "read", "page" }

WordNetWords == { "items" }

\* EMAIL_REGEX = ^[a-zA-Z0-9_.+-]+@[a-zA-Z0-9-]+\.[a-zA-Z0-9-.]+$
EmailLocalChars == UpperCase \o LowerCase \o Digits \o "_.+-"
EmailHostChars == UpperCase \o LowerCase \o Digits \o "-"
EmailTailChars == UpperCase \o LowerCase \o Digits \o "-."

\* The match of the part after the "@": [a-zA-Z0-9-]+\.[a-zA-Z0-9-.]+
EmailDomainMatches(d) ==
    /\ Find(d, ".", 1) > 1
    /\ AllIn(SubSeq(d, 1, Find(d, ".", 1) - 1), EmailHostChars)
    /\ Find(d, ".", 1) < Len(d)
    /\ AllIn(SubSeq(d, Find(d, ".", 1) + 1, Len(d)), EmailTailChars)

EmailMatches(t) ==
    /\ Find(t, "@", 1) > 1
    /\ AllIn(SubSeq(t, 1, Find(t, "@", 1) - 1), EmailLocalChars)
    /\ EmailDomainMatches(SubSeq(t, Find(t, "@", 1) + 1, Len(t)))

\* like_email(s)
like_email(s) == EmailMatches(strip_not_alnum(s))

\* like_url(s)
like_url(s) ==
    /\ Len(SplitWs(strip_not_alnum(s))) <= 1
    /\ urlparse(strip_not_alnum(s)).scheme # ""
    /\ urlparse(strip_not_alnum(s)).netloc # ""

\* categorize_word(s) after the strip: the name of the WordCategory, or None.
CategoryOf(new_text) ==
    IF IsFloat(new_text) THEN None
    ELSE IF Lower(new_text) \in nltk_words THEN "NLTK_WORDS"
    ELSE IF new_text \in WordNetWords THEN "NLTK_SYNSETS"
    ELSE IF like_url(new_text) THEN "LIKE_URL"
    ELSE IF like_email(new_text) THEN "LIKE_EMAIL"
    ELSE None

categorize_word(s) == CategoryOf(Strip(s))

\* SoupToken(text) after __post_init__, and SoupToken.is_word
SoupToken(text) == [text |-> text, word_category |-> categorize_word(text)]

TokenIsWord(tok) == tok.word_category # None

\* [SoupToken(tok) for tok in tokens]
RECURSIVE SoupTokens(_)
SoupTokens(toks) ==
    IF Len(toks) = 0 THEN <<>>
    ELSE <<SoupToken(toks[1])>> \o SoupTokens(Tail(toks))

\* sum(int(t.is_word()) for t in tokens)
RECURSIVE WordCount(_)
WordCount(tokens) ==
    IF Len(tokens) = 0 THEN 0
    ELSE (IF TokenIsWord(tokens[1]) THEN 1 ELSE 0) + WordCount(Tail(tokens))

(***************************************************************************)
(* SoupLine and SoupElem                                                   *)
(***************************************************************************)
\* HTML_RULES.get(name)
HTML_RULES(name) ==
    IF name = "span" THEN "inline"
    ELSE IF name = "option" THEN "exclude"
    ELSE None

\* The keep of a SoupLine before its text is looked at.
DefaultKeep(parent_name, name) ==
    IF name = "script.String" THEN FALSE
    ELSE IF HTML_RULES(parent_name) = "exclude" THEN FALSE
    ELSE TRUE

\* word_count > 2 and standard_dist < 0.4 and word_pct() > 0.5
ScriptCriteria(word_count, standard_dist, token_count) ==
    /\ word_count > 2
    /\ BelowPoint4(standard_dist)
    /\ token_count > 0
    /\ 2 * word_count > token_count

\* A SoupLine with a text that is not blank, from its tokens and distance.
AnalyzedLine(parent_name, name, text, tokens, standard_dist) ==
    [parent_name |-> parent_name, name |-> name, text |-> text,
     keep |-> IF name = "script.String"
              THEN ScriptCriteria(WordCount(tokens), standard_dist, Len(tokens))
              ELSE DefaultKeep(parent_name, name),
     standard_dist |-> standard_dist, tokens |-> tokens,
     word_count |-> WordCount(tokens)]

\* SoupLine(parent_name, name, text) after __post_init__
SoupLine(parent_name, name, text) ==
    IF RStrip(text) = ""
    THEN [parent_name |-> parent_name, name |-> name, text |-> "",
          keep |-> DefaultKeep(parent_name, name),
          standard_dist |-> NoneDist, tokens |-> <<>>, word_count |-> 0]
    ELSE AnalyzedLine(parent_name, name, RStrip(text),
                      SoupTokens(SplitWs(RStrip(text))),
                      standard_distance(RStrip(text)))

SPECIAL_TAG_LEN == 8
SPECIAL_TAGS == { "<!code!>", "<!head!>", "<!body!>", "<!text!>" }

\* split_special_tag(s)
split_special_tag(s) ==
    IF SubSeq(s, 1, Min({SPECIAL_TAG_LEN, Len(s)})) \in SPECIAL_TAGS
    THEN [tag |-> SubSeq(s, 1, SPECIAL_TAG_LEN),
          other |-> SubSeq(s, SPECIAL_TAG_LEN + 1, Len(s))]
    ELSE [tag |-> "", other |-> s]

\* min and max of two standard distances
DistMin(a, b) == IF DistLess(b, a) THEN b ELSE a
DistMax(a, b) == IF DistLess(a, b) THEN b ELSE a

\* A SoupElem as the dataclass constructs it, before __post_init__.
NewElem(depth, parent_name, name, text, special_tag) ==
    [depth |-> depth, parent_name |-> parent_name, name |-> name,
     text |-> text, keep |-> FALSE, special_tag |-> special_tag,
     lines |-> <<>>, token_count |-> 0, word_count |-> 0,
     min_standard_dist |-> NoneDist, max_standard_dist |-> NoneDist]

\* if new_line.keep: self.keep = True
LineMarks(e, new_line) == e.keep \/ new_line.keep

\* One turn of the loop over the lines in SoupElem.__post_init__
ElemAfterLine(e, new_line) ==
    [e EXCEPT
       !.lines = Append(e.lines, new_line),
       !.word_count = e.word_count + new_line.word_count,
       !.token_count = e.token_count + Len(new_line.tokens),
       !.min_standard_dist =
           IF e.min_standard_dist = NoneDist THEN new_line.standard_dist
           ELSE IF new_line.standard_dist # NoneDist
                THEN DistMin(e.min_standard_dist, new_line.standard_dist)
                ELSE e.min_standard_dist,
       !.max_standard_dist =
           IF e.min_standard_dist = NoneDist THEN new_line.standard_dist
           ELSE IF new_line.standard_dist # NoneDist
                THEN DistMax(e.max_standard_dist, new_line.standard_dist)
                ELSE e.max_standard_dist,
       !.keep = LineMarks(e, new_line)]

RECURSIVE ElemLines(_, _)
ElemLines(e, ls) ==
    IF Len(ls) = 0 THEN e
    ELSE ElemLines(ElemAfterLine(e, SoupLine(e.parent_name, e.name, ls[1])),
                   Tail(ls))

\* SoupElem.__post_init__ once the special tag is split off.
ElemOfSplit(depth, parent_name, name, sp) ==
    ElemLines(NewElem(depth, parent_name, name, RStrip(sp.other), sp.tag),
              SplitLines(RStrip(sp.other)))

\* SoupElem(depth, parent_name, name, text) after __post_init__
SoupElem(depth, parent_name, name, text) ==
    ElemOfSplit(depth, parent_name, name, split_special_tag(text))

(***************************************************************************)
(* The parsed document and the script tokenizer                            *)
(***************************************************************************)
\* A tag of the parse tree with its children, and a string of it (a
\* NavigableString: no name, no children attribute).
Tag(name, children) ==
    [name |-> name, text |-> "", children |-> children, has_children |-> TRUE]

NavigableString(text) ==
    [name |-> None, text |-> text, children |-> <<>>, has_children |-> FALSE]

\* elem.text: the strings under elem, concatenated.
RECURSIVE ElemText(_)
RECURSIVE ChildrenText(_)
ElemText(elem) ==
    IF elem.has_children THEN ChildrenText(elem.children) ELSE elem.text

ChildrenText(children) ==
    IF Len(children) = 0 THEN ""
    ELSE ElemText(children[1]) \o ChildrenText(Tail(children))

\* esprima.tokenize(text), for scripts of identifiers, punctuators and string
\* literals: the values of the String tokens in order, or the tokenizer's
\* error on a literal that is never closed.
IsQuote(c) == c = "\"" \/ c = "'"

\* The index of the first quote character of s, 0 when there is none.
FirstQuote(s) ==
    IF \E k \in 1..Len(s) : IsQuote(SubSeq(s, k, k))
    THEN CHOOSE k \in 1..Len(s) :
             /\ IsQuote(SubSeq(s, k, k))
             /\ \A j \in 1..(k - 1) : ~IsQuote(SubSeq(s, j, j))
    ELSE 0

\* The tokenizer's answer for a text whose first String token is head.
TokenizeAppend(head, rest) ==
    IF ~rest.ok THEN rest
    ELSE [ok |-> TRUE, strings |-> <<head>> \o rest.strings]

\* The tokens of s, whose first quote is at q and closes at c.
RECURSIVE TokenizeFrom(_, _, _)
TokenizeFrom(s, q, c) ==
    IF q = 0 THEN [ok |-> TRUE, strings |-> <<>>]
    ELSE IF c = 0 THEN [ok |-> FALSE, strings |-> <<>>]
    ELSE TokenizeAppend(
           SubSeq(s, q, c),
           TokenizeFrom(SubSeq(s, c + 1, Len(s)),
                        FirstQuote(SubSeq(s, c + 1, Len(s))),
                        IF FirstQuote(SubSeq(s, c + 1, Len(s))) = 0 THEN 0
                        ELSE Find(SubSeq(s, c + 1, Len(s)),
                                  SubSeq(s, c + FirstQuote(SubSeq(s, c + 1, Len(s))),
                                         c + FirstQuote(SubSeq(s, c + 1, Len(s)))),
                                  FirstQuote(SubSeq(s, c + 1, Len(s))) + 1)))

tokenize(s) ==
    TokenizeFrom(s, FirstQuote(s),
                 IF FirstQuote(s) = 0 THEN 0
                 ELSE Find(s, SubSeq(s, FirstQuote(s), FirstQuote(s)),
                           FirstQuote(s) + 1))

\* strip_quotes(s), for a text that is not blank.
StripQuotePair(t) ==
    IF Len(t) >= 2 /\ StartsWith(t, "'") /\ EndsWith(t, "'")
    THEN SubSeq(t, 2, Len(t) - 1)
    ELSE IF Len(t) >= 2 /\ StartsWith(t, "\"") /\ EndsWith(t, "\"")
    THEN SubSeq(t, 2, Len(t) - 1)
    ELSE t

strip_quotes(s) == Strip(StripQuotePair(Strip(s)))

\* eval_script_text(s) for a text without backslash: YAML reads new_s between
\* double quotes unless it holds one, then between single quotes unless it
\* holds one; the text as given when both fail.
EvalStripped(s, new_s) ==
    IF ~Contains(new_s, "\"") THEN new_s
    ELSE IF ~Contains(new_s, "'") THEN new_s
    ELSE s

eval_script_text(s) == EvalStripped(s, strip_quotes(s))

(***************************************************************************)
(* walk_soup_tree_strings                                                  *)
(***************************************************************************)
\* The parent_name a node hands to its elements and children.
RuleParent(elem, parent_name) ==
    IF HTML_RULES(elem.name) # None THEN elem.name ELSE parent_name

\* The SoupElems of the String tokens of a script.
RECURSIVE StringElems(_, _)
StringElems(strings, depth) ==
    IF Len(strings) = 0 THEN <<>>
    ELSE (IF Strip(strings[1]) # ""
          THEN <<SoupElem(depth + 1, "", "script.String",
                          eval_script_text(Strip(strings[1])))>>
          ELSE <<>>)
         \o StringElems(Tail(strings), depth)

\* tokens = esprima.tokenize(elem_text), when elem_text is not empty.
ScriptTokens(elem_text) ==
    IF elem_text = "" THEN [ok |-> TRUE, strings |-> <<>>]
    ELSE tokenize(elem_text)

\* The script branch: the elements it appends, or the exception it lets out.
ScriptPart(elem, depth, parent_name, toks) ==
    IF ~toks.ok THEN [ok |-> FALSE, elems |-> <<>>]
    ELSE [ok |-> TRUE,
          elems |-> <<SoupElem(depth, parent_name, elem.name, "")>>
                    \o StringElems(toks.strings, depth)]

\* r followed by more, an exception in either one ending the walk.
Extend(r, more) ==
    IF ~r.ok \/ ~more.ok THEN [ok |-> FALSE, elems |-> <<>>]
    ELSE [ok |-> TRUE, elems |-> r.elems \o more.elems]

NoElems == [ok |-> TRUE, elems |-> <<>>]

RECURSIVE WalkNode(_, _, _)
RECURSIVE WalkChildren(_, _, _)
\* walk_soup_tree_strings(elem, depth, parent_name) with parent_name already
\* replaced by the node's own name where HTML_RULES has it.
WalkNode(elem, depth, parent_name) ==
    Extend(
      IF elem.name = "script"
      THEN ScriptPart(elem, depth, parent_name,
                      ScriptTokens(Strip(ElemText(elem))))
      ELSE NoElems,
      IF elem.has_children
      THEN Extend([ok |-> TRUE,
                   elems |-> <<SoupElem(depth, parent_name, elem.name, "")>>],
                  WalkChildren(elem.children, depth + 1, parent_name))
      ELSE IF RStrip(ElemText(elem)) # ""
      THEN [ok |-> TRUE,
            elems |-> <<SoupElem(depth, parent_name, elem.name,
                                 RStrip(ElemText(elem)))>>]
      ELSE NoElems)

WalkChildren(children, depth, parent_name) ==
    IF Len(children) = 0 THEN NoElems
    ELSE Extend(WalkNode(children[1], depth,
                         RuleParent(children[1], parent_name)),
                WalkChildren(Tail(children), depth, parent_name))

\* walk_soup_tree_strings(elem): the list, or ok = FALSE for an exception.
walk_soup_tree_strings(elem) == WalkNode(elem, 0, RuleParent(elem, ""))

(***************************************************************************)
(* SpecText: one walk of a captured document                               *)
(***************************************************************************)
MaxChildren == 2

\* A token of 46 letters, one more than MAX_WORD_LEN.
LongToken == "pneumonoultramicroscopicsilicovolcanoconiosisx"

\* The nodes a document body is made of.
BodyNodes ==
    { NavigableString("Welcome to our store"),
      Tag("p", <<NavigableString("Browse new items today")>>),
      Tag("p", <<Tag("br", <<>>)>>),
      Tag("pre", <<NavigableString("x = 1\ny = 2")>>),
      Tag("option", <<NavigableString("Small")>>),
      Tag("option", <<Tag("b", <<NavigableString("Small")>>)>>),
      Tag("option", <<Tag("span", <<NavigableString("Large")>>)>>),
      Tag("script", <<NavigableString(
          "var a = \"Welcome to our store! Browse our new items today.\";")>>),
      Tag("script", <<NavigableString(
          "var b = \"a1b2c3==xyz==999\"; var c = 'the quick fox';")>>),
      Tag("script", <<NavigableString(
          "var d = \"the quick brown fox " \o LongToken \o "\";")>>),
      Tag("script", <<NavigableString("var e = 'read more;")>>) }

\* The children of a body: up to MaxChildren nodes.
RECURSIVE NodeSeqs(_)
NodeSeqs(n) ==
    IF n = 0 THEN { <<>> }
    ELSE NodeSeqs(n - 1)
         \cup { Append(q, x) : q \in { r \in NodeSeqs(n - 1) : Len(r) = n - 1 },
                               x \in BodyNodes }

Documents == { Tag("body", q) : q \in NodeSeqs(MaxChildren) \ { <<>> } }

InitText ==
    /\ tree \in Documents
    /\ walked = [status |-> "idle", elems |-> <<>>]
    /\ IdleSort
    /\ IdleCache
    /\ IdleLinks
    /\ IdleClip
    /\ IdleRace

\* The walk returns its list, or ends with an exception and the caller
\* gets no list.
WalkDone(r) ==
    walked' = [status |-> IF r.ok THEN "done" ELSE "raised",
               elems |-> r.elems]

Walk ==
    /\ walked.status = "idle"
    /\ WalkDone(walk_soup_tree_strings(tree))
    /\ UNCHANGED <<tree>>
    /\ UNCHANGED sortVars
    /\ UNCHANGED cacheVars
    /\ UNCHANGED linkVars
    /\ UNCHANGED clipVars
    /\ UNCHANGED raceVars

NextText == Walk

SpecText == InitText /\ [][NextText]_vars

\* The length of the longest run of non-space characters of s.
RECURSIVE LongestRunFrom(_, _)
LongestRunFrom(s, best) ==
    IF LStrip(s) = "" THEN best
    ELSE LongestRunFrom(
           SubSeq(LStrip(s), RunLength(LStrip(s)) + 1, Len(LStrip(s))),
           IF RunLength(LStrip(s)) > best THEN RunLength(LStrip(s)) ELSE best)

LongestRun(s) == LongestRunFrom(s, 0)

\* The elements of the walk, and the lines of all of them.
WalkedElems == { walked.elems[k] : k \in DOMAIN walked.elems }

WalkedLines == UNION { { e.lines[i] : i \in DOMAIN e.lines } : e \in WalkedElems }

MAX_WORD_LEN == 45

\* C14: a line of a script.String element is kept only if its longest run of
\* non-space characters is at most 45, it has more than 2 word tokens, its
\* standard distance is below 0.4 and more than half its tokens are words.
C14_PromotedOnlyIfAll ==
    \A l \in WalkedLines :
        (l.name = "script.String" /\ l.keep) =>
            /\ LongestRun(l.text) <= MAX_WORD_LEN
            /\ l.word_count > 2
            /\ BelowPoint4(l.standard_dist)
            /\ 2 * l.word_count > Len(l.tokens)

\* The texts of the strings of the document that lie under an <option>, at
\* any depth.
RECURSIVE TextsUnderOption(_, _)
TextsUnderOption(elem, inside) ==
    IF ~elem.has_children
    THEN (IF inside THEN { RStrip(elem.text) } ELSE {})
    ELSE UNION { TextsUnderOption(elem.children[i],
                                  inside \/ elem.name = "option")
                 : i \in DOMAIN elem.children }

\* C15: every line of a string under an <option>, nested in a <span> or not,
\* has keep = FALSE.
C15_OptionExcluded ==
    \A e \in WalkedElems :
        (e.name = None /\ e.text \in TextsUnderOption(tree, FALSE)) =>
            /\ ~e.keep
            /\ \A i \in DOMAIN e.lines : ~e.lines[i].keep

\* C16: a script whose body the tokenizer rejects does not abort the walk:
\* walk_soup_tree_strings lets no exception out and returns its list.
C16_MalformedScriptNeverAborts == walked.status # "raised"

\* The tags the element invariant names as always kept.
ContainerTags == { "pre", "code", "span", "br", "hr", "p" }

\* C17: an element of the walk has keep = TRUE iff one of its lines has,
\* except that an element named pre, code, span, br, hr or p has keep = TRUE
\* whatever its content.
C17_KeepIffLineOrContainer ==
    \A e \in WalkedElems :
        IF e.name \in ContainerTags THEN e.keep
        ELSE e.keep <=> \E i \in DOMAIN e.lines : e.lines[i].keep

(***************************************************************************)
(* SpecHead: one get_favicon_links call on a document head                 *)
(***************************************************************************)
MaxTags == 2

\* The <link> elements a head is made of: two hrefs of the same absolute URL,
\* one of them without a favicon rel, a conventional file, a link with an
\* empty href and a style sheet.
HeadTags ==
    { LinkTag("/s/i.png", <<"icon">>, "32x32"),
      LinkTag("/s/i.png", <<"preload">>, None),
      LinkTag("http://ex.com/s/i.png", <<"apple-touch-icon">>, None),
      LinkTag("/favicon.ico", <<"shortcut", "icon">>, None),
      LinkTag("", <<"icon">>, None),
      LinkTag("m.css", <<"stylesheet">>, None) }

RECURSIVE TagSeqs(_)
TagSeqs(n) ==
    IF n = 0 THEN { <<>> }
    ELSE TagSeqs(n - 1)
         \cup { Append(q, x) : q \in { r \in TagSeqs(n - 1) : Len(r) = n - 1 },
                               x \in HeadTags }

HeadSoups == { Soup(TRUE, q) : q \in TagSeqs(MaxTags) }

\* The discovered tier: empty, or holding the page's host with the URL the
\* head links to.
HeadStores ==
    { [p \in Paths |-> IF p = FAVICON_LOCAL_CACHE THEN f ELSE NoFile] :
        f \in { NoFile,
                YamlFile(Dict({"ex.com"}, "http://ex.com/s/i.png"), 0) } }

InitHead ==
    /\ store \in HeadStores
    /\ yamlCache = <<>>
    /\ now = 0
    /\ last = [op |-> "none"]
    /\ net = RichSite
    /\ links = <<>>
    /\ urlCache = <<>>
    /\ lastGfl = [op |-> "none"]
    /\ lastV = [op |-> "none"]
    /\ IdleSort
    /\ IdleText
    /\ IdleClip
    /\ IdleRace

HeadCall(soup, include) ==
    /\ lastGfl.op = "none"
    /\ GflCall(LinkPage, soup, include)

NextHead == \E soup \in HeadSoups, include \in Includes : HeadCall(soup, include)

SpecHead == InitHead /\ [][NextHead]_vars

\* The candidates of the last result with the href h.
ResultWith(h) == { i \in DOMAIN lastGfl.result : lastGfl.result[i].href = h }

\* C18: in "all" mode without a cache hit, every <link> of the head with a
\* favicon rel and an href that is not empty has a candidate with its absolute
\* URL in the result, whatever <link> elements precede it.
C18_EveryFaviconLinkListed ==
    (lastGfl.op = "gfl" /\ lastGfl.include = "all" /\ ~lastGfl.hit
       /\ lastGfl.soup.parsed /\ lastGfl.soup.head) =>
        \A k \in DOMAIN lastGfl.soup.tags :
            (HasFaviconRel(lastGfl.soup.tags[k].rel)
               /\ Truthy(lastGfl.soup.tags[k].href)) =>
                ResultWith(make_absolute_urls(lastGfl.page,
                                              lastGfl.soup.tags[k].href)) # {}

\* C19: the list get_favicon_links returns holds no two candidates with the
\* same href, in either mode.
C19_NoDuplicateHref ==
    lastGfl.op = "gfl" =>
        \A i, j \in DOMAIN lastGfl.result :
            lastGfl.result[i].href = lastGfl.result[j].href => i = j

\* The absolute URLs of the <link> elements of the last call that have an
\* href, in order.
TagUrls ==
    [k \in DOMAIN lastGfl.soup.tags |->
        make_absolute_urls(lastGfl.page, lastGfl.soup.tags[k].href)]

\* An "all" pass in which the cached href comes again in the head, a second
\* head link repeats an href, and a head link names a conventional file.
C19_Witness ==
    /\ lastGfl.op = "gfl"
    /\ lastGfl.include = "all"
    /\ lastGfl.hit
    /\ lastGfl.stage = "full"
    /\ Len(lastGfl.soup.tags) = 2
    /\ TagUrls[1] = lastGfl.result[1].href
    /\ TagUrls[2] = "http://ex.com/favicon.ico"
    /\ HasFaviconRel(lastGfl.soup.tags[1].rel)
    /\ Len(lastGfl.result) = 1 + Len(COMMON_FAVICON_FILES)

(***************************************************************************)
(* SpecFrame: the three cache-touching calls in any order, within one       *)
(* second, a write of the discovered store failing or not                   *)
(***************************************************************************)
FrameOverrides == YamlFile(Dict({"o.com"}, "http://o.io/1.png"), 0)
FrameDefaults == YamlFile(Dict({"d.com"}, "http://d.io/1.png"), 0)

FrameKeys == { "ex.com/a", "www.b.com" }
FrameHrefs == { "http://x.io/1.png", "http://x.io/2.png" }

InitFrame ==
    /\ store \in { [p \in Paths |->
                      IF p = FAVICON_OVERRIDES THEN FrameOverrides
                      ELSE IF p = FAVICON_DEFAULTS THEN FrameDefaults
                      ELSE f] :
                   f \in { NoFile, BadFile(0),
                           YamlFile(Dict({"ex.com"}, "http://x.io/0.png"), 0) } }
    /\ yamlCache = <<>>
    /\ now = 0
    /\ last = [op |-> "none"]
    /\ net = OnlyIco
    /\ links = <<>>
    /\ urlCache = <<>>
    /\ lastGfl = [op |-> "none"]
    /\ lastV = [op |-> "none"]
    /\ IdleSort
    /\ IdleText
    /\ IdleClip
    /\ IdleRace

NextFrame ==
    \/ GetCall(LinkPage)
    \/ \E include \in Includes : GflCall(LinkPage, NoSoup, include)
    \/ \E k \in FrameKeys, h \in FrameHrefs : AddCall(k, h)
    \/ \E k \in FrameKeys, h \in FrameHrefs : AddFails(k, h)

SpecFrame == InitFrame /\ [][NextFrame]_vars

\* C20: the calls leave the overrides and the defaults store as they were,
\* and an add_favicon_to_cache call leaves the discovered store holding the
\* mapping it held before the call with the one key of the call upserted.
C20_OnlyDiscoveredUpserted ==
    /\ store[FAVICON_OVERRIDES] = FrameOverrides
    /\ store[FAVICON_DEFAULTS] = FrameDefaults
    /\ last.op = "add" =>
          store[FAVICON_LOCAL_CACHE].data
              = SetItem(last.load.sdata, last.key, last.href)

(***************************************************************************)
(* SpecPaths: lookups of pages with every shape of host and path           *)
(***************************************************************************)
PathPages ==
    { "http://ex.com", "http://ex.com/", "http://ex.com/blog",
      "http://ex.com/blog/post1", "http://ex.com//blog",
      "http://www.ex.com/blog", "http://a.b.ex.com/x/y", "http://localhost/app" }

NextPaths ==
    \/ \E page_url \in PathPages : GetCall(page_url)
    \/ \E k \in KeyArgs : AddCall(k, KeyHref)

SpecPaths == InitKey /\ [][NextPaths]_vars

\* The first segment of a path: the text between its first "/" and the next.
FirstPathSegment(path) ==
    IF Len(Split(path, "/")) > 1 THEN Split(path, "/")[2] ELSE ""

\* The suffixes of a dotted host with two labels or more, longest first.
RECURSIVE SuffixesFrom(_)
SuffixesFrom(labels) ==
    IF Len(labels) < 2 THEN <<>>
    ELSE <<Join(labels, ".")>> \o SuffixesFrom(Tail(labels))

\* The key list the rule prescribes for a page URL.
PrescribedKeys(page_url) ==
    (IF FirstPathSegment(urlparse(page_url).path) # ""
     THEN <<urlparse(page_url).netloc \o "/"
            \o FirstPathSegment(urlparse(page_url).path)>>
     ELSE <<>>)
    \o SuffixesFrom(Split(urlparse(page_url).netloc, "."))

\* C21: the search keys of a lookup are host/first-segment iff that segment
\* is not empty, then the host and its suffixes down to two labels.
C21_SearchKeys ==
    last.op = "get" => search_paths(last.page) = PrescribedKeys(last.page)

(***************************************************************************)
(* util.py / web-tool.py: the clip cache                                   *)
(***************************************************************************)
CLIP_CACHE_TTL_SECONDS == 600
CLIP_CACHE_MAX_BATCHES == 100
CLIP_CACHE_MAX_CHUNK_NUMBER == 10000

\* The positions of the batches of a cache, and the position of a batch id
\* (0 when the id is not a key of the dict).
ClipIds(cache) == { cache[i].batch_id : i \in DOMAIN cache }

ClipIndex(cache, batch_id) ==
    IF batch_id \in ClipIds(cache)
    THEN CHOOSE i \in DOMAIN cache : cache[i].batch_id = batch_id
    ELSE 0

\* A cleanup that never finds a batch expired.
NeverExpired(current_time, created_at) == FALSE

\* current_time - batch_data.get('created_at', 0) > CLIP_CACHE_TTL_SECONDS
Expired(current_time, created_at) ==
    current_time - created_at > CLIP_CACHE_TTL_SECONDS

\* The cache without its expired batches.
WithoutExpired(cache, current_time) ==
    SelectSeq(cache, LAMBDA b : ~Expired(current_time, b.created_at))

\* The position of cache[i] in sorted(cache.items(), key=created_at): the
\* sort is stable, equal times stay in insertion order.
SortedRank(cache, i) ==
    1 + Cardinality({ j \in DOMAIN cache :
                        \/ cache[j].created_at < cache[i].created_at
                        \/ cache[j].created_at = cache[i].created_at /\ j < i })

\* The cache with the batches of the given ids only.
KeepIds(cache, ids) == SelectSeq(cache, LAMBDA b : b.batch_id \in ids)

\* The cache without the first n batches of the sorted list.
WithoutOldest(cache, n) ==
    KeepIds(cache, { cache[i].batch_id :
                       i \in { j \in DOMAIN cache : SortedRank(cache, j) > n } })

\* The count limit: if len(clip_cache) > CLIP_CACHE_MAX_BATCHES, the oldest go.
WithinCount(cache) ==
    IF Len(cache) > CLIP_CACHE_MAX_BATCHES
    THEN WithoutOldest(cache, Len(cache) - CLIP_CACHE_MAX_BATCHES)
    ELSE cache

\* The memory limit: room is the number of batches whose size the limit
\* admits (the size of the cache grows with every batch); the oldest go
\* until the rest fits.
WithinMemory(cache, room) ==
    IF Len(cache) > room THEN WithoutOldest(cache, Len(cache) - room)
    ELSE cache

\* cleanup_clip_cache()
cleanup_clip_cache(cache, current_time, room) ==
    WithinMemory(WithinCount(WithoutExpired(cache, current_time)), room)

\* uuid.UUID(batch_id) does not raise: 32 hexadecimal digits once the
\* hyphens are taken out.
HexSet == Chars("0123456789abcdefABCDEF")

IsUuid(batch_id) ==
    /\ Len(batch_id) - CountChar(batch_id, "-") = 32
    /\ \A i \in 1..Len(batch_id) :
          SubSeq(batch_id, i, i) \in HexSet \cup {"-"}

\* int(chunk_num_str) does not raise, and its value.
IsInt(t) == Len(Unsigned(t)) > 0 /\ AllIn(Unsigned(t), Digits)

RECURSIVE NatOf(_)
NatOf(t) ==
    IF t = "" THEN 0
    ELSE 10 * NatOf(SubSeq(t, 1, Len(t) - 1))
         + (Find(Digits, SubSeq(t, Len(t), Len(t)), 1) - 1)

IntOf(t) == IF StartsWith(t, "-") THEN 0 - NatOf(Unsigned(t)) ELSE NatOf(Unsigned(t))

\* The answer of clip_collector to its query arguments: "OK", or the 400.
CollectorAnswer(batch_id, chunk_num_str) ==
    IF ~Truthy(batch_id) THEN "400 missing batchId"
    ELSE IF ~IsUuid(batch_id) THEN "400 invalid batchId"
    ELSE IF ~Truthy(chunk_num_str) THEN "400 missing chunkNum"
    ELSE IF ~IsInt(chunk_num_str) THEN "400 invalid chunkNum"
    ELSE IF IntOf(chunk_num_str) < 1 THEN "400 not positive"
    ELSE IF IntOf(chunk_num_str) > CLIP_CACHE_MAX_CHUNK_NUMBER THEN "400 too large"
    ELSE "OK"

\* The batch created for a batch id that is not in the cache.
NewBatch(batch_id, current_time) ==
    [batch_id |-> batch_id, created_at |-> current_time, chunks |-> <<>>]

\* if batch_id not in util.clip_cache: util.clip_cache[batch_id] = {...}
WithBatch(cache, batch_id, current_time) ==
    IF batch_id \in ClipIds(cache) THEN cache
    ELSE Append(cache, NewBatch(batch_id, current_time))

\* d[k] = v for a dict with integer keys
SetChunk(chunks, chunk_number, data) ==
    [n \in (DOMAIN chunks) \cup {chunk_number} |->
        IF n = chunk_number THEN data ELSE chunks[n]]

\* util.clip_cache[batch_id]['chunks'][chunk_number] = data
StoreChunk(cache, batch_id, chunk_number, data) ==
    [cache EXCEPT ![ClipIndex(cache, batch_id)].chunks =
        SetChunk(@, chunk_number, data)]

\* The body of clip_collector for arguments it accepts.
clip_collector(cache, batch_id, chunk_number, data, current_time) ==
    StoreChunk(WithBatch(cache, batch_id, current_time),
               batch_id, chunk_number, data)

\* "".join(chunks[n] for n in sorted(chunks.keys()))
RECURSIVE JoinChunks(_, _)
JoinChunks(chunks, todo) ==
    IF todo = {} THEN ""
    ELSE chunks[Min(todo)] \o JoinChunks(chunks, todo \ {Min(todo)})

\* PageMetadata.load_clipboard() without a clipboard error: the clipboard
\* text and the cache afterwards; paste is what pyperclip.paste() gives.
load_clipboard(cache, batch_id, paste) ==
    IF Truthy(batch_id) /\ batch_id \in ClipIds(cache)
    THEN [present |-> TRUE,
          clipboard |-> JoinChunks(cache[ClipIndex(cache, batch_id)].chunks,
                                   DOMAIN cache[ClipIndex(cache, batch_id)].chunks),
          cache |-> SelectSeq(cache, LAMBDA b : b.batch_id # batch_id)]
    ELSE [present |-> FALSE, clipboard |-> paste, cache |-> cache]

(***************************************************************************)
(* SpecClip: uploads, cleanups and mirror requests as time passes          *)
(***************************************************************************)
ClipStart == 1          \* the time of the first request
MaxRoom == 1000         \* a memory limit that admits every cache of the model

\* No request comes later than this.
MaxClipTime == ClipStart + CLIP_CACHE_TTL_SECONDS + 1
ClipSteps == { CLIP_CACHE_TTL_SECONDS, CLIP_CACHE_TTL_SECONDS + 1 }

\* UUIDs: those of the batches a full cache holds, and a new one.
Uuid(i) == "00000000-0000-4000-8000-000000000" \o ZeroPad(Str(i), 3)

\* A cache of n batches of one chunk each, the first created a second
\* before the first request and the others at its time.
FilledCache(n) ==
    [i \in 1..n |->
        [batch_id |-> Uuid(i),
         created_at |-> IF i = 1 THEN ClipStart - 1 ELSE ClipStart,
         chunks |-> SetChunk(<<>>, 1, "a")]]

AcceptedOf(cache) ==
    [b \in ClipIds(cache) |-> cache[ClipIndex(cache, b)].chunks]

\* The uploads tried: chunks one and two of a new batch, chunk one sent
\* twice with different data, and arguments the
\* collector refuses.
Post(batch_id, chunk_num, data) ==
    [batch_id |-> batch_id, chunk_num |-> chunk_num, data |-> data]

ClipPosts ==
    { Post(Uuid(901), "1", "x"), Post(Uuid(901), "1", "yz"),
      Post(Uuid(901), "2", "w"),
      Post("junk", "1", "x"), Post("", "1", "x"),
      Post(Uuid(901), "0", "x"), Post(Uuid(901), "10001", "x"),
      Post(Uuid(901), "x", "x") }

BatchArgs == { Uuid(1), Uuid(901), "" }
ClipRooms == { CLIP_CACHE_MAX_BATCHES - 1, MaxRoom }
Paste == "pasted"

InitClip ==
    /\ clip_cache \in { <<>>, FilledCache(CLIP_CACHE_MAX_BATCHES + 1) }
    /\ clipNow = ClipStart
    /\ lastClip = [op |-> "none"]
    /\ accepted = AcceptedOf(clip_cache)
    /\ IdleRace
    /\ IdleSort
    /\ IdleCache
    /\ IdleLinks
    /\ IdleText

ClipFrame ==
    /\ UNCHANGED raceVars
    /\ UNCHANGED sortVars
    /\ UNCHANGED cacheVars
    /\ UNCHANGED linkVars
    /\ UNCHANGED textVars

\* The chunks accepted for a batch id and not read yet.
AcceptedFor(batch_id) ==
    IF batch_id \in DOMAIN accepted THEN accepted[batch_id] ELSE <<>>

\* The ghost after the chunk is accepted.
Accept(batch_id, chunk_number, data) ==
    [b \in (DOMAIN accepted) \cup {batch_id} |->
        IF b # batch_id THEN accepted[b]
        ELSE SetChunk(AcceptedFor(b), chunk_number, data)]

\* POST /clip-collector?batchId=..&chunkNum=.. that is accepted.
Collect(batch_id, chunk_num_str, data) ==
    /\ CollectorAnswer(batch_id, chunk_num_str) = "OK"
    /\ clip_cache' = clip_collector(clip_cache, batch_id,
                                    IntOf(chunk_num_str), data, clipNow)
    /\ accepted' = Accept(batch_id, IntOf(chunk_num_str), data)
    /\ lastClip' = [op |-> "collect", answer |-> "OK"]
    /\ UNCHANGED clipNow
    /\ ClipFrame

\* POST /clip-collector that is answered with a 400.
Reject(batch_id, chunk_num_str) ==
    /\ CollectorAnswer(batch_id, chunk_num_str) # "OK"
    /\ lastClip' = [op |-> "collect",
                    answer |-> CollectorAnswer(batch_id, chunk_num_str)]
    /\ UNCHANGED <<clip_cache, clipNow, accepted>>
    /\ ClipFrame

\* before_request_cleanup of some request.
Cleanup(room) ==
    /\ clip_cache' = cleanup_clip_cache(clip_cache, clipNow, room)
    /\ lastClip' = [op |-> "cleanup", before |-> clip_cache, room |-> room]
    /\ UNCHANGED <<clipNow, accepted>>
    /\ ClipFrame

\* The effect of a load_clipboard that gave r: a batch that was read starts
\* anew.
LoadDone(batch_id, r) ==
    /\ clip_cache' = r.cache
    /\ lastClip' = [op |-> "load", batch_id |-> batch_id,
                    present |-> r.present, clipboard |-> r.clipboard,
                    sent |-> AcceptedFor(batch_id)]
    /\ accepted' = IF r.present
                   THEN [b \in (DOMAIN accepted) \ {batch_id} |-> accepted[b]]
                   ELSE accepted
    /\ UNCHANGED clipNow
    /\ ClipFrame

\* A mirror request: PageMetadata(request).load_clipboard()
LoadClipboard(batch_id) ==
    LoadDone(batch_id, load_clipboard(clip_cache, batch_id, Paste))

\* Time passes.
ClipTick(d) ==
    /\ clipNow + d <= MaxClipTime
    /\ clipNow' = clipNow + d
    /\ lastClip' = [op |-> "none"]
    /\ UNCHANGED <<clip_cache, accepted>>
    /\ ClipFrame

NextClip ==
    \/ \E p \in ClipPosts : Collect(p.batch_id, p.chunk_num, p.data)
    \/ \E p \in ClipPosts : Reject(p.batch_id, p.chunk_num)
    \/ \E room \in ClipRooms : Cleanup(room)
    \/ \E b \in BatchArgs : LoadClipboard(b)
    \/ \E d \in ClipSteps : ClipTick(d)

SpecClip == InitClip /\ [][NextClip]_vars

(***************************************************************************)
(* Claims about the clip cache                                             *)
(***************************************************************************)
\* The age of a batch now.
Age(b) == clipNow - b.created_at

\* The batches the last cleanup found unexpired and removed.
EvictedUnexpired ==
    { i \in DOMAIN lastClip.before :
        /\ Age(lastClip.before[i]) <= CLIP_CACHE_TTL_SECONDS
        /\ lastClip.before[i].batch_id \notin ClipIds(clip_cache) }

\* The last step was a cleanup whose memory limit admitted the whole cache.
CleanedUnbound ==
    lastClip.op = "cleanup" /\ lastClip.room >= Len(lastClip.before)

\* C22: after a cleanup whose memory limit does not bind, no batch is older
\* than the time to live, there are at most CLIP_CACHE_MAX_BATCHES batches,
\* and every unexpired batch that was evicted is no newer than any survivor.
C22_CleanupInvariants ==
    CleanedUnbound =>
        /\ \A i \in DOMAIN clip_cache :
              Age(clip_cache[i]) <= CLIP_CACHE_TTL_SECONDS
        /\ Len(clip_cache) <= CLIP_CACHE_MAX_BATCHES
        /\ \A i \in EvictedUnexpired : \A j \in DOMAIN clip_cache :
              lastClip.before[i].created_at <= clip_cache[j].created_at

\* A cleanup that removed an expired batch and evicted an unexpired one for
\* the count limit, leaving batches whose age is exactly the time to live.
C22_Witness ==
    /\ CleanedUnbound
    /\ EvictedUnexpired # {}
    /\ \E i \in DOMAIN lastClip.before :
          Age(lastClip.before[i]) > CLIP_CACHE_TTL_SECONDS
    /\ \E j \in DOMAIN clip_cache :
          Age(clip_cache[j]) = CLIP_CACHE_TTL_SECONDS

\* The concatenation, in ascending chunk number, of the latest data of every
\* chunk that was accepted for the batch id of the last read.
AcceptedText == JoinChunks(lastClip.sent, DOMAIN lastClip.sent)

\* C30: the text load_clipboard assembles for a batch id that is present is
\* the concatenation, in ascending chunk number, of the latest data of every
\* chunk accepted for that batch id, and the read removes the batch.
C30_BatchIntegrity ==
    (lastClip.op = "load" /\ lastClip.present) =>
        /\ lastClip.clipboard = AcceptedText
        /\ lastClip.batch_id \notin ClipIds(clip_cache)

(***************************************************************************)
(* Claims about the validation of candidates                               *)
(***************************************************************************)
\* C25: validate_top_candidates returns at most max_count candidates, none
\* when max_count is 0.
C25_AtMostMaxCount ==
    lastV.op = "vtc" => Len(lastV.validated) <= lastV.max_count

\* C26: the value validate() returns is is_valid() of the candidate right
\* after the call, and every candidate validate_top_candidates returns
\* satisfies is_valid().
C26_ValidateAgreesWithIsValid ==
    /\ lastV.op = "validate" => lastV.ret = is_valid(lastV.after)
    /\ lastV.op = "vtc" =>
          \A k \in DOMAIN lastV.validated : is_valid(links[lastV.validated[k]])

(***************************************************************************)
(* SpecRetry: the candidates of one page while the site goes down and      *)
(* comes back.  Every get_favicon_links call is a new request and builds   *)
(* new candidates.                                                         *)
(***************************************************************************)
\* No URL answers.
Outage == [u \in {} |-> Unreachable]

InitRetry ==
    /\ store = [p \in Paths |-> NoFile]
    /\ yamlCache = <<>>
    /\ now = 0
    /\ last = [op |-> "none"]
    /\ net \in Worlds \cup {Outage}
    /\ links = <<>>
    /\ urlCache = <<>>
    /\ lastGfl = [op |-> "none"]
    /\ lastV = [op |-> "none"]
    /\ IdleSort
    /\ IdleText
    /\ IdleClip
    /\ IdleRace

\* The site goes down or comes back.
NetChange(world) ==
    /\ world # net
    /\ net' = world
    /\ lastV' = [op |-> "none"]
    /\ UNCHANGED <<links, urlCache, lastGfl>>
    /\ UNCHANGED cacheVars
    /\ UNCHANGED sortVars
    /\ UNCHANGED textVars
    /\ UNCHANGED clipVars
    /\ UNCHANGED raceVars

NextRetry ==
    \/ \E soup \in Soups, include \in Includes : GflCall(LinkPage, soup, include)
    \/ \E i \in 1..MaxDirect : ValidateCall(i)
    \/ \E max_count \in 0..MaxCount : VtcCall(max_count)
    \/ \E world \in Worlds \cup {Outage} : NetChange(world)

SpecRetry == InitRetry /\ [][NextRetry]_vars

\* C29: validating a candidate that was never validated, whose href serves an
\* image now, finds the candidate valid, whatever an earlier request for the
\* href ended in.
C29_FailureNotRemembered ==
    ( /\ lastV.op = "validate"
      /\ ~lastV.before.validated
      /\ NetGet(net, lastV.before.href).kind \in {"png", "ico", "svg"} )
    => /\ lastV.ret
       /\ is_valid(lastV.after)

\* C27: between calls, a read cache entry whose recorded modification time is
\* the file's current one holds exactly the mapping the file holds, also
\* after an add_favicon_to_cache whose write failed.
C27_ReadCacheCoherent ==
    \A p \in DOMAIN yamlCache :
        (store[p].exists /\ yamlCache[p].mtime = store[p].mtime)
            => yamlCache[p].data = SafeLoad(store[p])

(***************************************************************************)
(* SpecRace: two requests run add_favicon_to_cache at the same time.  The  *)
(* steps of one call are the load, the item assignment, the write and the  *)
(* invalidation; the steps of the two calls interleave in any order.  A    *)
(* dict is an object: heap[i] is the i-th dict _load_yaml_with_cache has   *)
(* made, and the read cache entry and the local variable `cache` of a      *)
(* request hold the number of a dict, so that two of them can hold the     *)
(* same one.                                                               *)
(***************************************************************************)
Requests == {"A", "B"}

RaceKeys == { "ex.com/a", "www.ex.com/a", "b.com/" }

RaceHref(r) == IF r = "A" THEN "http://x.io/1.png" ELSE "http://x.io/2.png"

RaceFiles ==
    { NoFile, BadFile(0), YamlFile(Dict({"ex.com"}, "http://x.io/0.png"), 0) }

InitRace ==
    /\ store \in { [p \in Paths |-> IF p = FAVICON_LOCAL_CACHE THEN f ELSE NoFile] :
                   f \in RaceFiles }
    /\ yamlCache = <<>>
    /\ now = 0
    /\ last = [op |-> "none"]
    /\ heap = <<>>
    /\ req \in [Requests -> { [pc |-> "start", cache_key |-> k, cache |-> 0] :
                               k \in RaceKeys }]
    /\ IdleSort
    /\ IdleText
    /\ IdleClip
    /\ IdleLinks

RaceFrame ==
    /\ UNCHANGED <<now, last>>
    /\ UNCHANGED sortVars
    /\ UNCHANGED textVars
    /\ UNCHANGED clipVars
    /\ UNCHANGED linkVars

\* The read cache entry of the discovered file can be reused.
EntryUsable ==
    /\ FAVICON_LOCAL_CACHE \in DOMAIN yamlCache
    /\ CacheStillValid(yamlCache[FAVICON_LOCAL_CACHE].mtime,
                       store[FAVICON_LOCAL_CACHE].mtime, now,
                       yamlCache[FAVICON_LOCAL_CACHE].loaded_at)

\* cache = _load_yaml_with_cache(FAVICON_LOCAL_CACHE): a new empty dict when
\* the file is missing, the dict of the read cache entry when that can be
\* reused, and otherwise a new dict read from the file, which the read cache
\* entry holds from now on.
RaceLoad(r) ==
    /\ req[r].pc = "start"
    /\ IF ~store[FAVICON_LOCAL_CACHE].exists
       THEN /\ heap' = Append(heap, EmptyDict)
            /\ req' = [req EXCEPT ![r].pc = "loaded", ![r].cache = Len(heap) + 1]
            /\ UNCHANGED yamlCache
       ELSE IF EntryUsable
       THEN /\ req' = [req EXCEPT ![r].pc = "loaded",
                                  ![r].cache = yamlCache[FAVICON_LOCAL_CACHE].data]
            /\ UNCHANGED <<heap, yamlCache>>
       ELSE /\ heap' = Append(heap, SafeLoad(store[FAVICON_LOCAL_CACHE]))
            /\ req' = [req EXCEPT ![r].pc = "loaded", ![r].cache = Len(heap) + 1]
            /\ yamlCache' = SetItem(yamlCache, FAVICON_LOCAL_CACHE,
                               [data |-> Len(heap) + 1,
                                mtime |-> store[FAVICON_LOCAL_CACHE].mtime,
                                loaded_at |-> now])
    /\ UNCHANGED store
    /\ RaceFrame

\* cache[cache_key] = favicon_link, with the key normalised
RaceUpdate(r) ==
    /\ req[r].pc = "loaded"
    /\ heap' = [heap EXCEPT ![req[r].cache] =
                   SetItem(@, NormalizeKey(req[r].cache_key), RaceHref(r))]
    /\ req' = [req EXCEPT ![r].pc = "updated"]
    /\ UNCHANGED <<store, yamlCache>>
    /\ RaceFrame

\* with open(FAVICON_LOCAL_CACHE, "w") as f: yaml.dump(cache, f)
RaceWrite(r) ==
    /\ req[r].pc = "updated"
    /\ store' = [store EXCEPT ![FAVICON_LOCAL_CACHE] =
                    YamlFile(heap[req[r].cache], store[FAVICON_LOCAL_CACHE].mtime + 1)]
    /\ req' = [req EXCEPT ![r].pc = "written"]
    /\ UNCHANGED <<heap, yamlCache>>
    /\ RaceFrame

\* del _favicon_yaml_cache[file_path_str], if it is there
RaceInvalidate(r) ==
    /\ req[r].pc = "written"
    /\ yamlCache' = Invalidate(yamlCache, FAVICON_LOCAL_CACHE)
    /\ req' = [req EXCEPT ![r].pc = "done"]
    /\ UNCHANGED <<heap, store>>
    /\ RaceFrame

NextRace ==
    \/ \E r \in Requests : RaceLoad(r)
    \/ \E r \in Requests : RaceUpdate(r)
    \/ \E r \in Requests : RaceWrite(r)
    \/ \E r \in Requests : RaceInvalidate(r)

SpecRace == InitRace /\ [][NextRace]_vars

\* C28: once two concurrent add_favicon_to_cache calls with different
\* normalised keys have both returned, the discovered file holds both
\* entries.
C28_BothKept ==
    ( /\ \A r \in Requests : req[r].pc = "done"
      /\ NormalizeKey(req["A"].cache_key) # NormalizeKey(req["B"].cache_key) )
    => \A r \in Requests :
          DictGet(store[FAVICON_LOCAL_CACHE].data, NormalizeKey(req[r].cache_key))
              = RaceHref(r)

(***************************************************************************)
(* web-tool.py: the /mirror-favicons request, which learns a favicon       *)
(***************************************************************************)
\* PageMetadata.cache_key: the host and the first segment of the path.
PageCacheKey(url) ==
    urlparse(url).netloc \o "/"
    \o (IF Len(Split(urlparse(url).path, "/")) > 1
        THEN Split(urlparse(url).path, "/")[2] ELSE "")

\* url_util.get_image_size(url): <<>> for None, else the ImageSize; the
\* get_url cache afterwards.  g is what get_url(url) gave; the status code
\* is 200 unless the request raised.  (The function is memoized as get_url
\* is; with a network that does not change the memo is not observable.)
ImageSizeOf(g) ==
    [size |-> IF g.resp.error = None
              THEN << [width |-> g.resp.image_width,
                       height |-> g.resp.image_height,
                       image_type |-> g.resp.type] >>
              ELSE <<>>,
     cache |-> g.cache]

get_image_size(url, cache, world) == ImageSizeOf(get_url(url, cache, world))

\* if size := url_util.get_image_size(favicon.href): favicon.width = ...
WithSize(favicon, size) ==
    IF size = <<>> THEN favicon
    ELSE [favicon EXCEPT !.width = size[1].width,
                         !.height = size[1].height,
                         !.image_type = size[1].image_type]

\* for favicon in favicons: ... from position i on
RECURSIVE SizeAll(_, _, _, _)
SizeAll(favicons, i, cache, world) ==
    IF i > Len(favicons) THEN [favicons |-> favicons, cache |-> cache]
    ELSE SizeAll([favicons EXCEPT ![i] =
                     WithSize(@, get_image_size(favicons[i].href, cache, world).size)],
                 i + 1,
                 get_image_size(favicons[i].href, cache, world).cache,
                 world)

\* elif favicons: (the branch that records), cache_favicon being whether a
\* cache candidate was set aside.
Records(cache_favicon, favicons) == ~cache_favicon /\ Len(favicons) > 0

\* get_mirror_favicons after get_favicon_links gave g: the sorted list, what
\* is recorded, and the files and caches afterwards.
MirrorAfterLinks(page_url, g, st, t, urlcache, world) ==
    LET cache_favicon == Len(g.links) > 0 /\ Truthy(g.links[1].cache_key)
        sized  == SizeAll(IF cache_favicon THEN Tail(g.links) ELSE g.links,
                          1, urlcache, world)
        sorted == sort_favicon_links(sized.favicons, FAVICON_WIDTH, "all")
        a      == add_favicon_to_cache(PageCacheKey(page_url), sorted[1].href,
                                       g.ycache, st, t)
    IN  IF Records(cache_favicon, sorted)
        THEN [recorded |-> TRUE, hit |-> cache_favicon, favicons |-> sorted,
              key |-> a.key, store |-> a.store, ycache |-> a.cache,
              urlcache |-> sized.cache]
        ELSE [recorded |-> FALSE, hit |-> cache_favicon,
              favicons |-> IF cache_favicon
                           THEN <<WithSize(g.links[1],
                                     get_image_size(g.links[1].href, sized.cache,
                                                    world).size)>> \o sorted
                           ELSE sorted,
              key |-> None, store |-> st, ycache |-> g.ycache,
              urlcache |-> IF cache_favicon
                           THEN get_image_size(g.links[1].href, sized.cache,
                                               world).cache
                           ELSE sized.cache]

get_mirror_favicons(page_url, soup, ycache, st, t, urlcache, world) ==
    MirrorAfterLinks(page_url,
                     get_favicon_links(page_url, soup, "all", ycache, st, t, world),
                     st, t, urlcache, world)

(***************************************************************************)
(* SpecMirror: /mirror-favicons requests and lookups for pages with an     *)
(* empty path, a www host and a path of two segments.                      *)
(***************************************************************************)
MirrorPages ==
    { "http://ex.com", "http://www.ex.com/blog", "http://ex.com/blog/post1" }

MirrorSoups ==
    { Soup(FALSE, <<>>),
      Soup(TRUE, << LinkTag("/s/i.png", <<"icon">>, "32x32") >>) }

MirrorHosts == { "http://ex.com", "http://www.ex.com" }

\* Every host serves /s/i.png and /favicon.ico; /favicon.png is missing
\* (a 404) or answered with an HTML page.
MirrorSite(png) ==
    [u \in { h \o f : h \in MirrorHosts,
                      f \in {"/s/i.png", "/favicon.ico", "/favicon.png"} } |->
        IF EndsWith(u, "/s/i.png") THEN Served("png", 32, 32)
        ELSE IF EndsWith(u, "/favicon.ico") THEN Served("ico", 16, 16)
        ELSE png]

MirrorWorlds == { MirrorSite(Unreachable), MirrorSite(Served("html", 0, 0)) }

InitMirror ==
    /\ store = [p \in Paths |-> NoFile]
    /\ yamlCache = <<>>
    /\ now = 0
    /\ last = [op |-> "none"]
    /\ net \in MirrorWorlds
    /\ links = <<>>
    /\ urlCache = <<>>
    /\ lastGfl = [op |-> "none"]
    /\ lastV = [op |-> "none"]
    /\ IdleSort
    /\ IdleText
    /\ IdleClip
    /\ IdleRace

\* The effect of a /mirror-favicons request that gave m.
MirrorDone(page_url, soup, m) ==
    /\ store' = m.store
    /\ yamlCache' = m.ycache
    /\ urlCache' = m.urlcache
    /\ links' = m.favicons
    /\ lastV' = [op |-> "mirror", page |-> page_url, soup |-> soup,
                 recorded |-> m.recorded, hit |-> m.hit, key |-> m.key]
    /\ last' = [op |-> "none"]
    /\ lastGfl' = [op |-> "none"]
    /\ UNCHANGED <<now, net>>
    /\ UNCHANGED sortVars
    /\ UNCHANGED textVars
    /\ UNCHANGED clipVars
    /\ UNCHANGED raceVars

\* GET /mirror-favicons for a page
MirrorFavicons(page_url, soup) ==
    /\ store[FAVICON_LOCAL_CACHE].mtime < MaxMtime
    /\ MirrorDone(page_url, soup,
                  get_mirror_favicons(page_url, soup, yamlCache, store, now,
                                      urlCache, net))

NextMirror ==
    \/ \E page_url \in MirrorPages, soup \in MirrorSoups :
          MirrorFavicons(page_url, soup)
    \/ \E page_url \in MirrorPages : GetCall(page_url)

SpecMirror == InitMirror /\ [][NextMirror]_vars

\* C23: the candidate a /mirror-favicons request records was fetched
\* successfully and its content is an image.
C23_RecordedIsImage ==
    (lastV.op = "mirror" /\ lastV.recorded) =>
        /\ NetGet(net, links[1].href).kind \notin {"fail", "html"}
        /\ Truthy(links[1].image_type)

\* C24: after a /mirror-favicons request recorded a discovery for a page,
\* the next get_favicon_cache of that page returns the recorded href.
C24_LearningRoundTrip ==
    ( /\ last.op = "get"
      /\ lastV.op = "mirror"
      /\ lastV.recorded
      /\ lastV.page = last.page )
    => /\ last.result # <<>>
       /\ last.result[1].href = links[1].href

====
